---- MODULE Spec2Model ----
(***************************************************************************)
(* Institutional Flow Analysis Engine of GetDailyStock                     *)
(* (src/stock_workflow.py, the functions of the analysis step and the      *)
(* TWSE crawlers).                                                         *)
(*                                                                         *)
(* Representation                                                          *)
(*   - a string is a sequence of one-character strings; a blank CSV cell   *)
(*     (pandas NaN / None) is the value NaN; code cells are strings        *)
(*     (an object column);                                                 *)
(*   - a day-file is named by its date; dates are naturals ordered like    *)
(*     the YYYYMMDD file names;                                            *)
(*   - share counts and lots are integers; a share cell is <<n>> or <<>>   *)
(*     (blank or not numeric);                                             *)
(*   - a dict is a function, a DataFrame a sequence of row records that    *)
(*     carry their index label.                                            *)
(*                                                                         *)
(* Specifications                                                          *)
(*   SpecNorm   normalize_stock_code, load_stock_list, is_allowed_stock    *)
(*   SpecRank   process_shares_files over one day-file of a rich family    *)
(*   Spec       process_shares_files over a list of small day-files        *)
(*   SpecStats  calculate_stock_statistics over drawn series               *)
(*   SpecObs    process_shares_files, calculate_stock_statistics and       *)
(*              analyze_new_entries_and_observables, as run_step2_analysis *)
(*              chains them                                                *)
(*   SpecAgg    process_shares_files followed by aggregate_analysis        *)
(*   SpecHist   collect_stock_history over a flow and a price folder       *)
(*   SpecCap    collect_stock_history over a long flow folder              *)
(*   SpecSkip   process_shares_files over day-files that raise             *)
(*   SpecRun    run_step2_analysis from process_shares_files to            *)
(*              export_to_excel                                            *)
(*   SpecWindow calculate_stock_statistics over series beyond the window   *)
(*   SpecStatus aggregate_analysis over days with and without a code       *)
(*   SpecCrawl  run_step1_crawler, run after run                           *)
(*                                                                         *)
(* Left out of process_shares_files: the name column, the price columns,   *)
(* the ETF top-10 lists and all_data, none of which feeds the history,     *)
(* the ranked lists or the top-20 bookkeeping.  Left out of                *)
(* aggregate_analysis: the formatted date columns and the csv files.       *)
(* collect_stock_history keeps one flow field and two price fields of a    *)
(* record, and whether its flow fields and its price fields were set.      *)
(***************************************************************************)
EXTENDS Integers, Sequences, FiniteSets, TLC

VARIABLES
    \* ---- normalizer / allow-list harness ----
    norm_pc,              \* position of the normalizer harness
    code,                 \* raw identifier handed to normalize_stock_code
    normalized,           \* normalize_stock_code(code)
    renormalized,         \* normalize_stock_code(normalized)
    market_list,          \* first column of the list file (or missing file)
    allowed_stock_codes,  \* allow-list: load_stock_list result / parameter
    allowed_result,       \* is_allowed_stock(code, allowed_stock_codes)
    \* ---- process_shares_files ----
    psf_pc,               \* "idle", "loop" (inside the for loop) or "done"
    day_files,            \* the day-file folder: date -> file content
    latest_files,         \* parameter latest_files (paths, named by date)
    file_idx,             \* number of entries of latest_files consumed
    top_buy_count,        \* parameter top_buy_count  (N1)
    top_sell_count,       \* parameter top_sell_count (N2)
    df,                   \* the frame of the day-file processed last
    daily_all_stocks,     \* date -> (code -> lots)
    all_historical_data,  \* code -> sequence of <<date, lots>>
    daily_buy_stocks,     \* date -> set of top-20 buy codes
    daily_sell_stocks,    \* date -> set of top-20 sell codes
    buy_top20_tracker,    \* sequence of [code, date, lots]
    sell_top20_tracker,   \* sequence of [code, date, lots]
    daily_buy_sell_data,  \* sequence of ranked outputs (buy_output/sell_output)
    statistics,           \* filtered_out_count / processed_count
    lots_check,           \* shares_to_lots of the share cells of df
    \* ---- calculate_stock_statistics ----
    stat_pc,              \* "idle", "start" or "done"
    sigma_threshold,      \* parameter sigma_threshold, a fraction num/den
    stock_statistics,     \* code -> AnomalyStats entry
    \* ---- analyze_new_entries_and_observables ----
    ana_pc,               \* "idle", "start" or "done"
    new_buy_stocks,       \* codes new to the top-20 buy list
    new_sell_stocks,      \* codes new to the top-20 sell list
    observable_buy_stocks,   \* code -> [reason, z_sq]
    observable_sell_stocks,  \* code -> [reason, z_sq]
    latest_date,          \* <<date>> of the latest ranked day, <<>> for None
    latest_buy_stocks_n,  \* codes of the latest day's top-N1 buy list
    latest_sell_stocks_n, \* codes of the latest day's top-N2 sell list
    \* ---- aggregate_analysis ----
    agg_pc,               \* "idle", "start" or "done"
    aggregate_threshold,  \* parameter aggregate_threshold: <<n>> or <<>> (None)
    show_top_n,           \* parameter show_top_n: <<n>> or <<>> (None)
    buy_stocks,           \* buy leaderboard: [is_none, rows]
    sell_stocks,          \* sell leaderboard: [is_none, rows]
    both_stocks_set,      \* codes found in both trackers
    both_stocks_df,       \* detail rows of both_stocks_set: [is_none, rows]
    exp_pc,               \* export_to_excel: "idle", "start", "done",
                          \* "skipped" or "raised"
    \* ---- collect_stock_history ----
    csh_pc,               \* "idle", "collect" or "done"
    target_stocks,        \* all_target_stocks in the order its loops take
    shares_folder,        \* flow folder: date -> file content
    daily_folder,         \* price folder: [exists, files: date -> content]
    shares_idx,           \* number of flow files consumed
    daily_idx,            \* number of price files consumed
    stock_history_data,   \* code -> (date -> merged record)
    history_files,        \* code -> the file written: [columns, rows]
    \* ---- run_step1_crawler ----
    crawl_pc,             \* "idle", "scan", "download" or "returned"
    crawl_stage,          \* the crawler at work: "daily" or "institutional"
    today,                \* end_date = datetime.now(), as a day number
    save_dir,             \* crawler -> the dates that have a file
    missing_dates,        \* the dates the scan has listed, newest first
    download_idx,         \* number of the listed dates attempted
    success_count         \* files written by the crawler at work

norm_vars == <<norm_pc, code, normalized, renormalized, market_list,
               allowed_result>>
psf_vars  == <<psf_pc, day_files, latest_files, file_idx, top_buy_count,
               top_sell_count, df, daily_all_stocks, all_historical_data,
               daily_buy_stocks, daily_sell_stocks, buy_top20_tracker,
               sell_top20_tracker, daily_buy_sell_data, statistics,
               lots_check>>
stat_vars == <<stat_pc, sigma_threshold, stock_statistics>>
ana_vars  == <<ana_pc, new_buy_stocks, new_sell_stocks,
               observable_buy_stocks, observable_sell_stocks, latest_date,
               latest_buy_stocks_n, latest_sell_stocks_n>>
agg_vars  == <<agg_pc, aggregate_threshold, show_top_n, buy_stocks,
               sell_stocks, both_stocks_set, both_stocks_df, exp_pc>>
csh_vars  == <<csh_pc, target_stocks, shares_folder, daily_folder,
               shares_idx, daily_idx, stock_history_data, history_files>>
crawl_vars == <<crawl_pc, crawl_stage, today, save_dir, missing_dates,
                download_idx, success_count>>
report_vars == <<ana_vars, agg_vars, csh_vars, crawl_vars>>
vars == <<norm_vars, allowed_stock_codes, psf_vars, stat_vars, report_vars>>

(***************************************************************************)
(* Bounds of the model                                                     *)
(***************************************************************************)
MaxLen == 3        \* longest raw identifier handed to the normalizer
MaxCells == 2      \* most code cells in a list file
MaxRows == 2       \* most freely chosen rows of a rich day-file
MaxDate == 2       \* number of day-files in the folder
MaxFiles == 6      \* longest latest_files list
MaxSeriesLen == 36 \* longest series handed to the statistics engine

(***************************************************************************)
(* Generic helpers                                                         *)
(***************************************************************************)
NaN == <<"NaN">>                \* pandas NaN / None (a blank cell)
Unset == <<"unset">>            \* a result not computed yet
Digits == {"0", "1", "2", "3", "4", "5", "6", "7", "8", "9"}
Whitespace == {" "}
Chars == {"0", "5", " ", "\"", "=", "'", "A"}

Min(a, b) == IF a <= b THEN a ELSE b

\* s[:n]
Take(s, n) == SubSeq(s, 1, Min(n, Len(s)))

\* the set of elements of a sequence
Range(s) == {s[k] : k \in 1..Len(s)}

\* sequences over S of length at most n
SeqsUpTo(S, n) == UNION {[1..k -> S] : k \in 0..n}

(***************************************************************************)
(* 4.1 Code Normalizer                                                     *)
(***************************************************************************)
\* str.lstrip / str.rstrip / str.strip
RECURSIVE lstrip(_)
lstrip(s) == IF s # <<>> /\ Head(s) \in Whitespace THEN lstrip(Tail(s)) ELSE s

RECURSIVE rstrip(_)
rstrip(s) ==
    IF s # <<>> /\ s[Len(s)] \in Whitespace
    THEN rstrip(SubSeq(s, 1, Len(s) - 1))
    ELSE s

strip(s) == rstrip(lstrip(s))

\* str.replace(old, ''): left-to-right, non-overlapping removal of old
RECURSIVE remove(_, _)
remove(s, old) ==
    IF Len(s) < Len(old) THEN s
    ELSE IF SubSeq(s, 1, Len(old)) = old
         THEN remove(SubSeq(s, Len(old) + 1, Len(s)), old)
         ELSE <<Head(s)>> \o remove(Tail(s), old)

\* str.isdigit: non-empty and every character a digit
isdigit(s) == s # <<>> /\ \A k \in 1..Len(s) : s[k] \in Digits

\* a zfill that pads on the wrong side
RECURSIVE zfill_right(_, _)
zfill_right(s, width) ==
    IF Len(s) >= width THEN s ELSE zfill_right(s \o <<"0">>, width)

\* str.zfill(width) of a digit string
RECURSIVE zfill(_, _)
zfill(s, width) == IF Len(s) >= width THEN s ELSE zfill(<<"0">> \o s, width)

PadWidth == 4       \* numeric codes shorter than this are zero-padded

normalize_stock_code(c) ==
    IF c = NaN \/ c = <<>> THEN <<>>
    ELSE LET code_str ==
                 remove(remove(remove(strip(c), <<"=", "\"">>), <<"\"">>),
                        <<"'">>)
         IN IF isdigit(code_str) /\ Len(code_str) < PadWidth
            THEN zfill(code_str, PadWidth)
            ELSE code_str

(***************************************************************************)
(* Allow-list                                                              *)
(***************************************************************************)
\* the allow-list parameter: None, or a set of codes
NoneList == [is_none |-> TRUE, codes |-> {}]
ListOf(S) == [is_none |-> FALSE, codes |-> S]

\* a list file: missing, or the cells of its first column
MissingFile == [exists |-> FALSE, cells |-> <<>>]
ListFile(cells) == [exists |-> TRUE, cells |-> cells]

\* load_stock_list: the allow-list built from the first column of the file
load_stock_list(file) ==
    IF ~file.exists THEN NoneList
    ELSE ListOf({normalize_stock_code(file.cells[k]) :
                    k \in 1..Len(file.cells)})

is_allowed_stock(stock_code, allowed) ==
    IF allowed.is_none THEN TRUE
    ELSE normalize_stock_code(stock_code) \in allowed.codes

(***************************************************************************)
(* Harness of the normalizer and of the allow-list membership test         *)
(***************************************************************************)
RawCodes == SeqsUpTo(Chars, MaxLen) \cup {NaN}

\* cells of the first column of a list file: codes or blank cells
ListCells == {NaN, <<"5", "6">>}
ListFiles ==
    {ListFile(cells) : cells \in SeqsUpTo(ListCells, MaxCells)}
        \cup {MissingFile}

IdlePsf ==
    /\ psf_pc = "idle"
    /\ day_files = <<>>
    /\ latest_files = <<>>
    /\ file_idx = 0
    /\ top_buy_count = 0
    /\ top_sell_count = 0
    /\ df = <<>>
    /\ daily_all_stocks = <<>>
    /\ all_historical_data = <<>>
    /\ daily_buy_stocks = <<>>
    /\ daily_sell_stocks = <<>>
    /\ buy_top20_tracker = <<>>
    /\ sell_top20_tracker = <<>>
    /\ daily_buy_sell_data = <<>>
    /\ statistics = [filtered_out_count |-> 0, processed_count |-> 0]
    /\ lots_check = <<>>

IdleNorm ==
    /\ norm_pc = "idle"
    /\ code = NaN
    /\ normalized = Unset
    /\ renormalized = Unset
    /\ market_list = MissingFile
    /\ allowed_result = FALSE

IdleStat ==
    /\ stat_pc = "idle"
    /\ sigma_threshold = [num |-> 5, den |-> 2]
    /\ stock_statistics = <<>>

\* the state of analyze_new_entries_and_observables before it is called
IdleAna ==
    /\ ana_pc = "idle"
    /\ new_buy_stocks = {}
    /\ new_sell_stocks = {}
    /\ observable_buy_stocks = <<>>
    /\ observable_sell_stocks = <<>>
    /\ latest_date = <<>>
    /\ latest_buy_stocks_n = {}
    /\ latest_sell_stocks_n = {}

\* a frame that is None, and a frame of rows
NoneFrame == [is_none |-> TRUE, rows |-> <<>>]
Frame(rows) == [is_none |-> FALSE, rows |-> rows]

\* an optional number: None, or the number n
None == <<>>
Some(n) == <<n>>

\* the state of aggregate_analysis before it is called
IdleAgg ==
    /\ agg_pc = "idle"
    /\ aggregate_threshold = None
    /\ show_top_n = None
    /\ buy_stocks = NoneFrame
    /\ sell_stocks = NoneFrame
    /\ both_stocks_set = {}
    /\ both_stocks_df = NoneFrame
    /\ exp_pc = "idle"

\* a folder that does not exist, and a folder of files
MissingFolder == [exists |-> FALSE, files |-> <<>>]
Folder(files) == [exists |-> TRUE, files |-> files]

\* the state of collect_stock_history before it is called
IdleCsh ==
    /\ csh_pc = "idle"
    /\ target_stocks = <<>>
    /\ shares_folder = <<>>
    /\ daily_folder = MissingFolder
    /\ shares_idx = 0
    /\ daily_idx = 0
    /\ stock_history_data = <<>>
    /\ history_files = <<>>

\* the state of the crawler before run_step1_crawler is called
IdleCrawl ==
    /\ crawl_pc = "idle"
    /\ crawl_stage = "daily"
    /\ today = 0
    /\ save_dir = <<>>
    /\ missing_dates = <<>>
    /\ download_idx = 0
    /\ success_count = 0

IdleReport == IdleAna /\ IdleAgg /\ IdleCsh /\ IdleCrawl

InitNorm ==
    /\ norm_pc = "start"
    /\ code \in RawCodes
    /\ normalized = Unset
    /\ renormalized = Unset
    /\ market_list = MissingFile
    /\ allowed_stock_codes = NoneList
    /\ allowed_result = FALSE
    /\ IdlePsf
    /\ IdleStat
    /\ IdleReport

\* normalized = normalize_stock_code(code)
Normalize ==
    /\ norm_pc = "start"
    /\ normalized' = normalize_stock_code(code)
    /\ norm_pc' = "normalized"
    /\ UNCHANGED <<code, renormalized, market_list, allowed_result,
                   allowed_stock_codes, psf_vars, stat_vars, report_vars>>

\* the canonical code is normalized again (as process_shares_files does
\* with the codes of the frame)
NormalizeAgain ==
    /\ norm_pc = "normalized"
    /\ renormalized' = normalize_stock_code(normalized)
    /\ norm_pc' = "renormalized"
    /\ UNCHANGED <<code, normalized, market_list, allowed_result,
                   allowed_stock_codes, psf_vars, stat_vars, report_vars>>

\* allowed_stock_codes, _, _ = load_stock_list(path) for some list file
LoadStockList ==
    /\ norm_pc = "renormalized"
    /\ \E file \in ListFiles :
          /\ market_list' = file
          /\ allowed_stock_codes' = load_stock_list(file)
    /\ norm_pc' = "loaded"
    /\ UNCHANGED <<code, normalized, renormalized, allowed_result,
                   psf_vars, stat_vars, report_vars>>

\* allowed_result = is_allowed_stock(normalized, allowed_stock_codes)
IsAllowedStock ==
    /\ norm_pc = "loaded"
    /\ allowed_result' = is_allowed_stock(normalized, allowed_stock_codes)
    /\ norm_pc' = "checked"
    /\ UNCHANGED <<code, normalized, renormalized, market_list,
                   allowed_stock_codes, psf_vars, stat_vars, report_vars>>

NextNorm ==
    \/ Normalize
    \/ NormalizeAgain
    \/ LoadStockList
    \/ IsAllowedStock

SpecNorm == InitNorm /\ [][NextNorm]_vars

(***************************************************************************)
(* Claims on the normalizer and the allow-list (specification SpecNorm)    *)
(***************************************************************************)
IsShortNumeric(s) == s # NaN /\ isdigit(s) /\ Len(s) \in 1..3

Zeros(n) == [k \in 1..n |-> "0"]

\* C1: a raw code of 1, 2 or 3 digits normalizes to a string of length
\* exactly 4 made of '0' characters followed by the original digits.
C1_ShortNumericPadded ==
    (norm_pc # "start" /\ IsShortNumeric(code)) =>
        /\ Len(normalized) = 4
        /\ normalized = Zeros(4 - Len(code)) \o code

C1_Witness ==
    /\ norm_pc = "normalized"
    /\ code = <<"5", "0">>
    /\ normalized = <<"0", "0", "5", "0">>

\* C2: normalize_stock_code is idempotent: normalizing the result of a
\* normalization gives that result again, for every raw input.
C2_Idempotent ==
    norm_pc \in {"renormalized", "loaded", "checked"} =>
        renormalized = normalized

\* C3: an empty or missing raw identifier normalizes to the empty string,
\* and the empty string passes no allow-list membership test, whatever the
\* allow-list (absent, or loaded from a list file with blank code cells).
C3_EmptyNeverAllowed ==
    /\ (norm_pc # "start" /\ code \in {NaN, <<>>}) => normalized = <<>>
    /\ (norm_pc = "checked" /\ normalized = <<>>) => allowed_result = FALSE

(***************************************************************************)
(* 4.2 / 4.3 process_shares_files: Daily Rank Extractor and History        *)
(* Accumulator                                                             *)
(***************************************************************************)
LotSize == 1000     \* shares per lot
Top20 == 20         \* size of the fixed top list kept per ranked day
RankedDays == 5     \* only latest_files[:5] are ranked

\* a numeric cell is <<n>>, a blank or non-numeric cell is <<>>
Blank == <<>>
Num(n) == <<n>>

\* a day-file: its rows, or a file pd.read_csv cannot read; name_column
\* tells whether the file has the column '證券名稱'
Unreadable == [readable |-> FALSE, rows |-> <<>>, name_column |-> TRUE]
DayFile(rows) == [readable |-> TRUE, rows |-> rows, name_column |-> TRUE]
NamelessDayFile(rows) ==
    [readable |-> TRUE, rows |-> rows, name_column |-> FALSE]

\* dict helpers
Get(d, k, default) == IF k \in DOMAIN d THEN d[k] ELSE default
Put(d, k, v) == [x \in DOMAIN d \cup {k} |-> IF x = k THEN v ELSE d[x]]

\* a conversion that rounds down instead of dropping the fraction
floor_div(num, den) == num \div den

\* int(num / den) and (num / den).astype(int): the fraction is dropped

trunc_div(num, den) ==
    IF num >= 0 THEN num \div den ELSE -((-num) \div den)

\* shares_to_lots(value): blank -> 0, else int(float(value) / 1000)
shares_to_lots(value) ==
    IF value = Blank THEN 0 ELSE trunc_div(value[1], LotSize)

\* (to_numeric(col, errors='coerce') / 1000).fillna(0).astype(int) of a cell
frame_lots(cell) ==
    IF cell = Blank THEN 0 ELSE trunc_div(cell[1], LotSize)

\* the frame after lines 1120-1139: codes normalized, rows outside the
\* allow-list dropped, the lots column added; idx is the row's index label
normalize_column(rows) ==
    [k \in DOMAIN rows |->
        [idx |-> k, code |-> normalize_stock_code(rows[k].code),
         shares |-> rows[k].shares]]

filter_allowed(rows, allowed) ==
    IF allowed.is_none THEN rows
    ELSE SelectSeq(rows, LAMBDA r : r.code \in allowed.codes)

add_lots(rows) ==
    [k \in DOMAIN rows |->
        [idx |-> rows[k].idx, code |-> rows[k].code,
         shares |-> rows[k].shares, lots |-> frame_lots(rows[k].shares)]]

load_frame(rows, allowed) ==
    add_lots(filter_allowed(normalize_column(rows), allowed))

\* lines 1143-1152: the loop over the rows of the frame; acc.day is
\* daily_all_stocks[file_date], acc.hist is all_historical_data
RECURSIVE accumulate_rows(_, _, _, _)
accumulate_rows(rows, file_date, allowed, acc) ==
    IF rows = <<>> THEN acc
    ELSE LET row == Head(rows)
             stock_code == normalize_stock_code(row.code)
             acc1 ==
                 IF is_allowed_stock(stock_code, allowed)
                 THEN [day |-> Put(acc.day, stock_code, row.lots),
                       hist |-> Put(acc.hist, stock_code,
                                    Append(Get(acc.hist, stock_code, <<>>),
                                           <<file_date, row.lots>>))]
                 ELSE acc
         IN accumulate_rows(Tail(rows), file_date, allowed, acc1)

\* DataFrame.nlargest(n, lots) / nsmallest(n, lots), keep='first': ordered
\* by lots, rows with equal lots in their order in the frame, first n kept
RECURSIVE insert_desc(_, _)
insert_desc(sorted, r) ==
    IF sorted = <<>> THEN <<r>>
    ELSE IF Head(sorted).lots >= r.lots
         THEN <<Head(sorted)>> \o insert_desc(Tail(sorted), r)
         ELSE <<r>> \o sorted

RECURSIVE insert_asc(_, _)
insert_asc(sorted, r) ==
    IF sorted = <<>> THEN <<r>>
    ELSE IF Head(sorted).lots <= r.lots
         THEN <<Head(sorted)>> \o insert_asc(Tail(sorted), r)
         ELSE <<r>> \o sorted

RECURSIVE sort_desc(_)
sort_desc(rows) ==
    IF rows = <<>> THEN <<>>
    ELSE insert_desc(sort_desc(SubSeq(rows, 1, Len(rows) - 1)), rows[Len(rows)])

RECURSIVE sort_asc(_)
sort_asc(rows) ==
    IF rows = <<>> THEN <<>>
    ELSE insert_asc(sort_asc(SubSeq(rows, 1, Len(rows) - 1)), rows[Len(rows)])

nlargest_unlimited(n, rows) == sort_desc(rows)

nlargest(n, rows) == IF n <= 0 THEN <<>> ELSE Take(sort_desc(rows), n)

nsmallest(n, rows) == IF n <= 0 THEN <<>> ELSE Take(sort_asc(rows), n)

buy_candidates(frame) == SelectSeq(frame, LAMBDA r : r.lots > 0)
sell_candidates(frame) == SelectSeq(frame, LAMBDA r : r.lots < 0)

CodesOf(rows) == {rows[k].code : k \in DOMAIN rows}

\* buy_output / sell_output: index label, code, lots; the rank is the
\* position
ranked_output(file_date, category, top) ==
    [date |-> file_date, category |-> category,
     rows |-> [k \in DOMAIN top |->
                  [idx |-> top[k].idx, code |-> top[k].code,
                   lots |-> top[k].lots]]]

\* rows appended to buy_top20_tracker / sell_top20_tracker
tracker_rows(file_date, top20) ==
    [k \in DOMAIN top20 |->
        [code |-> normalize_stock_code(top20[k].code), date |-> file_date,
         lots |-> top20[k].lots]]

\* lines 1166 and 1206: buy_top[['證券代號', '證券名稱', '買賣超張數']] of a
\* ranked day raises KeyError when the frame has no column '證券名稱'
selection_raises(content, top) == ~content.name_column /\ Len(top) > 0

\* one pass of the for loop over a readable file (lines 1119-1291)
ProcessFile ==
    /\ psf_pc = "loop"
    /\ file_idx < Len(latest_files)
    /\ LET file_path == latest_files[file_idx + 1]
           file_date == file_path
           content == day_files[file_path]
       IN /\ content.readable
          /\ LET frame == load_frame(content.rows, allowed_stock_codes)
             IN file_path \in Range(Take(latest_files, RankedDays)) =>
                    /\ ~selection_raises(content,
                           nlargest(top_buy_count, buy_candidates(frame)))
                    /\ ~selection_raises(content,
                           nsmallest(top_sell_count, sell_candidates(frame)))
          /\ LET frame == load_frame(content.rows, allowed_stock_codes)
                 acc == accumulate_rows(frame, file_date, allowed_stock_codes,
                                        [day |-> <<>>, hist |-> all_historical_data])
                 ranked == file_path \in Range(Take(latest_files, RankedDays))
                 buy_top == nlargest(top_buy_count, buy_candidates(frame))
                 buy_top20 == nlargest(Top20, buy_candidates(frame))
                 sell_top == nsmallest(top_sell_count, sell_candidates(frame))
                 sell_top20 == nsmallest(Top20, sell_candidates(frame))
                 buy_out == IF Len(buy_top) > 0
                            THEN <<ranked_output(file_date, "buy", buy_top)>>
                            ELSE <<>>
                 sell_out == IF Len(sell_top) > 0
                             THEN <<ranked_output(file_date, "sell", sell_top)>>
                             ELSE <<>>
             IN /\ df' = frame
                /\ statistics' =
                       IF allowed_stock_codes.is_none THEN statistics
                       ELSE [filtered_out_count |->
                                 statistics.filtered_out_count
                                 + (Len(content.rows) - Len(frame)),
                             processed_count |->
                                 statistics.processed_count + Len(frame)]
                /\ daily_all_stocks' = Put(daily_all_stocks, file_date, acc.day)
                /\ all_historical_data' = acc.hist
                /\ IF ranked
                   THEN /\ daily_buy_stocks' =
                               Put(daily_buy_stocks, file_date,
                                   IF Len(buy_top) > 0 THEN CodesOf(buy_top20)
                                   ELSE {})
                        /\ buy_top20_tracker' =
                               IF Len(buy_top) > 0
                               THEN buy_top20_tracker
                                    \o tracker_rows(file_date, buy_top20)
                               ELSE buy_top20_tracker
                        /\ daily_sell_stocks' =
                               Put(daily_sell_stocks, file_date,
                                   IF Len(sell_top) > 0 THEN CodesOf(sell_top20)
                                   ELSE {})
                        /\ sell_top20_tracker' =
                               IF Len(sell_top) > 0
                               THEN sell_top20_tracker
                                    \o tracker_rows(file_date, sell_top20)
                               ELSE sell_top20_tracker
                        /\ daily_buy_sell_data' =
                               daily_buy_sell_data \o buy_out \o sell_out
                   ELSE UNCHANGED <<daily_buy_stocks, buy_top20_tracker,
                                    daily_sell_stocks, sell_top20_tracker,
                                    daily_buy_sell_data>>
    /\ file_idx' = file_idx + 1
    /\ UNCHANGED <<psf_pc, day_files, latest_files, top_buy_count,
                   top_sell_count, lots_check, allowed_stock_codes, norm_vars,
                   stat_vars, report_vars>>

\* one pass of the for loop over a ranked day-file without the column
\* '證券名稱': lines 1120-1152 have run when the selection of line 1166
\* (or, with no buy row, after line 1200, that of line 1206) raises; the
\* except clause of line 1293 prints and the loop goes on
ProcessFileRaises ==
    /\ psf_pc = "loop"
    /\ file_idx < Len(latest_files)
    /\ LET file_path == latest_files[file_idx + 1]
           file_date == file_path
           content == day_files[file_path]
       IN /\ content.readable
          /\ file_path \in Range(Take(latest_files, RankedDays))
          /\ LET frame == load_frame(content.rows, allowed_stock_codes)
                 acc == accumulate_rows(frame, file_date, allowed_stock_codes,
                                        [day |-> <<>>, hist |-> all_historical_data])
                 buy_top == nlargest(top_buy_count, buy_candidates(frame))
                 sell_top == nsmallest(top_sell_count, sell_candidates(frame))
             IN /\ \/ selection_raises(content, buy_top)
                   \/ selection_raises(content, sell_top)
                /\ df' = frame
                /\ statistics' =
                       IF allowed_stock_codes.is_none THEN statistics
                       ELSE [filtered_out_count |->
                                 statistics.filtered_out_count
                                 + (Len(content.rows) - Len(frame)),
                             processed_count |->
                                 statistics.processed_count + Len(frame)]
                /\ daily_all_stocks' = Put(daily_all_stocks, file_date, acc.day)
                /\ all_historical_data' = acc.hist
                /\ daily_buy_stocks' =
                       IF selection_raises(content, buy_top)
                       THEN daily_buy_stocks
                       ELSE Put(daily_buy_stocks, file_date, {})
    /\ file_idx' = file_idx + 1
    /\ UNCHANGED <<psf_pc, day_files, latest_files, top_buy_count,
                   top_sell_count, daily_sell_stocks, buy_top20_tracker,
                   sell_top20_tracker, daily_buy_sell_data, lots_check,
                   allowed_stock_codes, norm_vars, stat_vars, report_vars>>

\* one pass of the for loop over a file pd.read_csv fails on: the except
\* clause of line 1293 prints and the loop goes on
SkipUnreadable ==
    /\ psf_pc = "loop"
    /\ file_idx < Len(latest_files)
    /\ ~day_files[latest_files[file_idx + 1]].readable
    /\ file_idx' = file_idx + 1
    /\ UNCHANGED <<psf_pc, day_files, latest_files, top_buy_count,
                   top_sell_count, df, daily_all_stocks, all_historical_data,
                   daily_buy_stocks, daily_sell_stocks, buy_top20_tracker,
                   sell_top20_tracker, daily_buy_sell_data, statistics,
                   lots_check, allowed_stock_codes, norm_vars, stat_vars,
                   report_vars>>

\* the loop is over: the statistics dict is built and the tuple returned
ReturnResults ==
    /\ psf_pc = "loop"
    /\ file_idx = Len(latest_files)
    /\ psf_pc' = "done"
    /\ UNCHANGED <<day_files, latest_files, file_idx, top_buy_count,
                   top_sell_count, df, daily_all_stocks, all_historical_data,
                   daily_buy_stocks, daily_sell_stocks, buy_top20_tracker,
                   sell_top20_tracker, daily_buy_sell_data, statistics,
                   lots_check, allowed_stock_codes, norm_vars, stat_vars,
                   report_vars>>

\* shares_to_lots applied to every share cell of the frame read last (as
\* collect_stock_history applies it to the cells of the same day-files)
SharesToLots ==
    /\ psf_pc = "done"
    /\ Len(lots_check) # Len(df)
    /\ lots_check' = [k \in DOMAIN df |-> shares_to_lots(df[k].shares)]
    /\ UNCHANGED <<psf_pc, day_files, latest_files, file_idx, top_buy_count,
                   top_sell_count, df, daily_all_stocks, all_historical_data,
                   daily_buy_stocks, daily_sell_stocks, buy_top20_tracker,
                   sell_top20_tracker, daily_buy_sell_data, statistics,
                   allowed_stock_codes, norm_vars, stat_vars, report_vars>>

NextPsf ==
    \/ ProcessFile
    \/ SkipUnreadable
    \/ ReturnResults

\* the state on entry of the loop (lines 1099-1110)
EnterPsf ==
    /\ psf_pc = "loop"
    /\ file_idx = 0
    /\ df = <<>>
    /\ daily_all_stocks = <<>>
    /\ all_historical_data = <<>>
    /\ daily_buy_stocks = <<>>
    /\ daily_sell_stocks = <<>>
    /\ buy_top20_tracker = <<>>
    /\ sell_top20_tracker = <<>>
    /\ daily_buy_sell_data = <<>>
    /\ statistics = [filtered_out_count |-> 0, processed_count |-> 0]
    /\ lots_check = <<>>

(***************************************************************************)
(* Spec: process_shares_files over a list of small day-files               *)
(***************************************************************************)
Row(c, n) == [code |-> c, shares |-> Num(n)]

Code56 == <<"5", "6">>
Code55 == <<"5", "5">>

SmallDayFiles ==
    { Unreadable,
      DayFile(<<Row(Code56, 2000), [code |-> Code55, shares |-> Blank]>>),
      DayFile(<<Row(Code56, 2500), Row(Code56, -3000)>>),
      DayFile(<<Row(Code55, -1500), Row(Code56, 999)>>) }

Dates == 1..MaxDate

\* lists as get_latest_files sorts them, newest first; a path may repeat
NewestFirst(l) == \A k \in 1..(Len(l) - 1) : l[k] >= l[k + 1]
FileLists == {l \in SeqsUpTo(Dates, MaxFiles) : NewestFirst(l)}

Init ==
    /\ day_files \in [Dates -> SmallDayFiles]
    /\ latest_files \in FileLists
    /\ top_buy_count = 1
    /\ top_sell_count = 1
    /\ allowed_stock_codes = NoneList
    /\ EnterPsf
    /\ IdleNorm
    /\ IdleReport
    /\ IdleStat

Next == NextPsf

Spec == Init /\ [][Next]_vars

(***************************************************************************)
(* SpecRank: process_shares_files over one day-file drawn from a richer    *)
(* family: a block of filler rows (distinct codes, 2 lots each) followed   *)
(* by freely chosen rows                                                   *)
(***************************************************************************)
DigitChars == <<"0", "1", "2", "3", "4", "5", "6", "7", "8", "9">>
FillerCode(k) == <<"8", DigitChars[(k \div 10) + 1], DigitChars[(k % 10) + 1]>>
FillerRows(n) == [k \in 1..n |-> Row(FillerCode(k), 2 * LotSize)]

ShareCells == {Num(n) : n \in {-3000, -2500, -999, 999, 2000, 3000}}
FreeRows == {[code |-> c, shares |-> v] : c \in {Code55, Code56}, v \in ShareCells}

AllowOnly56 == ListOf({normalize_stock_code(Code56)})

\* top_buy_count, top_sell_count, number of filler rows, allow-list
RankConfigs ==
    {[n1 |-> a, n2 |-> b, fillers |-> 0, allowed |-> NoneList] :
        a \in {0, 1, Top20 + 1}, b \in {0, 1}}
    \cup {[n1 |-> a, n2 |-> 1, fillers |-> Top20 - 1, allowed |-> NoneList] :
              a \in {1, Top20 + 1}}
    \cup {[n1 |-> 1, n2 |-> 1, fillers |-> 0, allowed |-> AllowOnly56]}

InitRank ==
    /\ \E cfg \in RankConfigs :
          /\ \/ \E free \in SeqsUpTo(FreeRows, MaxRows) :
                   day_files = <<DayFile(FillerRows(cfg.fillers) \o free)>>
             \/ /\ cfg.fillers = 0
                /\ day_files = <<Unreadable>>
          /\ top_buy_count = cfg.n1
          /\ top_sell_count = cfg.n2
          /\ allowed_stock_codes = cfg.allowed
    /\ latest_files = <<1>>
    /\ EnterPsf
    /\ IdleNorm
    /\ IdleReport
    /\ IdleStat

NextRank ==
    \/ ProcessFile
    \/ SkipUnreadable
    \/ ReturnResults
    \/ SharesToLots

SpecRank == InitRank /\ [][NextRank]_vars

(***************************************************************************)
(* Claims on the Daily Rank Extractor (specification SpecRank)             *)
(***************************************************************************)
BuyOutputs == SelectSeq(daily_buy_sell_data, LAMBDA o : o.category = "buy")
SellOutputs == SelectSeq(daily_buy_sell_data, LAMBDA o : o.category = "sell")

\* code points of the characters, and Python's order of strings
Ord(c) ==
    CASE c = " " -> 32
      [] c = "\"" -> 34
      [] c = "'" -> 39
      [] c \in Digits -> 47 + (CHOOSE k \in 1..10 : DigitChars[k] = c)
      [] c = "=" -> 61
      [] c = "A" -> 65

RECURSIVE StrLess(_, _)
StrLess(a, b) ==
    IF b = <<>> THEN FALSE
    ELSE IF a = <<>> THEN TRUE
    ELSE IF Head(a) = Head(b) THEN StrLess(Tail(a), Tail(b))
    ELSE Ord(Head(a)) < Ord(Head(b))

\* C4: the codes of a day's buy list and the codes of the same day's sell
\* list are disjoint, also when a code occurs in more than one row.
C4_BuySellDisjoint ==
    \A i \in DOMAIN BuyOutputs, j \in DOMAIN SellOutputs :
        BuyOutputs[i].date = SellOutputs[j].date =>
            CodesOf(BuyOutputs[i].rows) \cap CodesOf(SellOutputs[j].rows) = {}

\* C5: a day's buy list has at most N1 entries, all with lots > 0, its sell
\* list at most N2 entries, all with lots < 0, and a record of 0 lots is in
\* neither list.
C5_ListsBounded ==
    /\ \A i \in DOMAIN BuyOutputs :
          /\ Len(BuyOutputs[i].rows) <= top_buy_count
          /\ \A k \in DOMAIN BuyOutputs[i].rows : BuyOutputs[i].rows[k].lots > 0
    /\ \A j \in DOMAIN SellOutputs :
          /\ Len(SellOutputs[j].rows) <= top_sell_count
          /\ \A k \in DOMAIN SellOutputs[j].rows : SellOutputs[j].rows[k].lots < 0
    /\ \A r \in Range(df) :
          r.lots = 0 =>
              \A o \in Range(daily_buy_sell_data) :
                  \A k \in DOMAIN o.rows : o.rows[k].idx # r.idx

C5_Witness ==
    /\ psf_pc = "done"
    /\ top_buy_count = 1
    /\ Len(buy_candidates(df)) > 1
    /\ \E r \in Range(df) : r.lots = 0
    /\ Len(BuyOutputs) = 1 /\ Len(BuyOutputs[1].rows) = 1
    /\ Len(SellOutputs) = 1 /\ Len(SellOutputs[1].rows) = 1

\* C6: the buy list is ordered by lots descending, the sell list by lots
\* ascending, and entries of equal lots by ascending code (so the ranked
\* lists do not depend on the order of the rows of the snapshot).
C6_TieBreakByCode ==
    /\ \A i \in DOMAIN BuyOutputs :
          LET rows == BuyOutputs[i].rows
          IN \A k \in 1..(Len(rows) - 1) :
                 \/ rows[k].lots > rows[k + 1].lots
                 \/ /\ rows[k].lots = rows[k + 1].lots
                    /\ ~StrLess(rows[k + 1].code, rows[k].code)
    /\ \A j \in DOMAIN SellOutputs :
          LET rows == SellOutputs[j].rows
          IN \A k \in 1..(Len(rows) - 1) :
                 \/ rows[k].lots < rows[k + 1].lots
                 \/ /\ rows[k].lots = rows[k + 1].lots
                    /\ ~StrLess(rows[k + 1].code, rows[k].code)

TrackerCodes(tracker, d) ==
    {tracker[k].code : k \in {x \in DOMAIN tracker : tracker[x].date = d}}

\* C7: the top-20 buy and sell sets recorded for a ranked day (the daily
\* sets and the trackers) are the codes of the 20 largest positive and of
\* the 20 most negative eligible records, whatever N1 and N2 are.
C7_Top20IndependentOfN ==
    \A d \in DOMAIN daily_buy_stocks :
        LET frame == load_frame(day_files[d].rows, allowed_stock_codes)
            buy20 == CodesOf(nlargest(Top20, buy_candidates(frame)))
            sell20 == CodesOf(nsmallest(Top20, sell_candidates(frame)))
        IN /\ daily_buy_stocks[d] = buy20
           /\ daily_sell_stocks[d] = sell20
           /\ TrackerCodes(buy_top20_tracker, d) = buy20
           /\ TrackerCodes(sell_top20_tracker, d) = sell20

\* q is s / LotSize with the fraction dropped (rounded toward zero)
TruncatedTowardZero(s, q) ==
    /\ s >= 0 => (q >= 0 /\ q * LotSize <= s /\ s < (q + 1) * LotSize)
    /\ s < 0 => (q <= 0 /\ q * LotSize >= s /\ s > (q - 1) * LotSize)

\* C8: lots are the integer share count divided by 1000 and truncated
\* toward zero, for positive and negative counts (under 1000 shares: 0
\* lots), and shares_to_lots agrees with the conversion of the frame.
C8_LotsTruncate ==
    \A k \in DOMAIN df :
        df[k].shares # Blank =>
            /\ TruncatedTowardZero(df[k].shares[1], df[k].lots)
            /\ k \in DOMAIN lots_check =>
                   /\ TruncatedTowardZero(df[k].shares[1], lots_check[k])
                   /\ lots_check[k] = df[k].lots

C8_Witness ==
    /\ psf_pc = "done"
    /\ Len(lots_check) = 2
    /\ df[1].shares = Num(-999) /\ df[1].lots = 0 /\ lots_check[1] = 0
    /\ df[2].shares = Num(-2500) /\ df[2].lots = -2 /\ lots_check[2] = -2

(***************************************************************************)
(* Claims on the History Accumulator (specification Spec)                  *)
(***************************************************************************)
\* C9: every series of all_historical_data holds at most one entry per
\* date, and the value kept for a (security, date) pair is the last one
\* supplied (so accumulating a snapshot twice changes nothing).
C9_OneEntryPerDate ==
    \A c \in DOMAIN all_historical_data :
        LET series == all_historical_data[c]
        IN /\ \A i, j \in DOMAIN series :
                  i # j => series[i][1] # series[j][1]
           /\ \A i \in DOMAIN series :
                  series[i][2] = daily_all_stocks[series[i][1]][c]

(***************************************************************************)
(* 4.4 calculate_stock_statistics: Statistics Engine                       *)
(***************************************************************************)
MinHistory == 30    \* fewest entries (and fewest basis values) required
WindowEnd == 61     \* the basis is sorted_values[1:61]

\* sorted(date_values, key=lambda x: x[0], reverse=True): by date, newest
\* first, entries of one date in their order in the series (the sort is
\* stable).  A series that is newest first already is returned as it is
\* and one of strictly growing dates is reversed; in any other series an
\* entry is placed after the entries of a later date and after the entries
\* of its own date that stand before it.
sorted_by_date_desc(date_values) ==
    LET n == Len(date_values)
        place ==
            [k \in 1..n |->
                1 + Cardinality(
                        {j \in 1..n :
                            \/ date_values[j][1] > date_values[k][1]
                            \/ /\ date_values[j][1] = date_values[k][1]
                               /\ j < k})]
    IN IF \A k \in 1..(n - 1) : date_values[k][1] >= date_values[k + 1][1]
       THEN date_values
       ELSE IF \A k \in 1..(n - 1) : date_values[k][1] < date_values[k + 1][1]
       THEN [p \in 1..n |-> date_values[n + 1 - p]]
       ELSE [p \in 1..n |-> date_values[CHOOSE k \in 1..n : place[k] = p]]

\* the basis taken from sorted_values[0:61], the latest entry included
historical_values_with_latest(date_values) ==
    LET sorted_values == sorted_by_date_desc(date_values)
        basis == SubSeq(sorted_values, 1, Min(WindowEnd, Len(sorted_values)))
    IN [k \in DOMAIN basis |-> basis[k][2]]

\* the basis taken from sorted_values[1:], with no end of the window
historical_values_unbounded(date_values) ==
    LET sorted_values == sorted_by_date_desc(date_values)
        basis == SubSeq(sorted_values, 2, Len(sorted_values))
    IN [k \in DOMAIN basis |-> basis[k][2]]

\* [v[1] for v in sorted_values[1:61]]
historical_values(date_values) ==
    LET sorted_values == sorted_by_date_desc(date_values)
        basis == SubSeq(sorted_values, 2, Min(WindowEnd, Len(sorted_values)))
    IN [k \in DOMAIN basis |-> basis[k][2]]

RECURSIVE SumSeq(_)
SumSeq(xs) == IF xs = <<>> THEN 0 ELSE Head(xs) + SumSeq(Tail(xs))

\* the two length tests of lines 1448 and 1453
has_statistics_outer_only(date_values) == Len(date_values) >= MinHistory

has_statistics(date_values) ==
    /\ Len(date_values) >= MinHistory
    /\ Len(historical_values(date_values)) >= MinHistory

\* the entry of one security.  With n basis values of sum total, the mean
\* is total / n and the standard deviation sqrt(var_num) / n, where
\* var_num = n * sum(x^2) - total^2, so that
\* z_score = |latest - mean| / std = |dev| / sqrt(var_num) with
\* dev = n * latest - total.  The entry keeps the square of z_score as the
\* fraction z_sq; z_score >= sigma_threshold is decided on the squares.
ZeroScore == [num |-> 0, den |-> 1]

entry_sums(date_values) ==
    LET sorted_values == sorted_by_date_desc(date_values)
        latest_value == sorted_values[1][2]
        hist == historical_values(date_values)
        n == Len(hist)
        total == SumSeq(hist)
    IN [latest |-> latest_value, n |-> n, total |-> total,
        var_num |-> n * SumSeq([k \in DOMAIN hist |-> hist[k] * hist[k]])
                    - total * total,
        dev |-> n * latest_value - total]

\* z_score >= sigma_threshold for the z_score whose square is z_sq
at_least_sigma(z_sq, sigma) ==
    z_sq.num * sigma.den * sigma.den >= sigma.num * sigma.num * z_sq.den

\* the entry computed without the test std > 0: the quotient by a zero
\* deviation is the infinite score of the float division
stock_entry_unguarded(date_values, sigma) ==
    LET s == entry_sums(date_values)
        z_sq == [num |-> s.dev * s.dev, den |-> s.var_num]
    IN [latest |-> s.latest, n |-> s.n, total |-> s.total,
        var_num |-> s.var_num, z_sq |-> z_sq,
        anomalous |-> at_least_sigma(z_sq, sigma)]

stock_entry(date_values, sigma) ==
    LET s == entry_sums(date_values)
        z_sq == IF s.var_num > 0
                THEN [num |-> s.dev * s.dev, den |-> s.var_num]
                ELSE ZeroScore
    IN [latest |-> s.latest, n |-> s.n, total |-> s.total,
        var_num |-> s.var_num, z_sq |-> z_sq,
        anomalous |-> at_least_sigma(z_sq, sigma)]

calculate_stock_statistics(historical, sigma) ==
    LET kept == {c \in DOMAIN historical : has_statistics(historical[c])}
    IN [c \in kept |-> stock_entry(historical[c], sigma)]

\* a function that sorted the series handed in and cut it down to the
\* entries of its basis (date_values[:] = sorted(...)[1:61])
after_slicing_in_place(historical) ==
    [c \in DOMAIN historical |->
        LET sorted_values == sorted_by_date_desc(historical[c])
        IN SubSeq(sorted_values, 2, Min(WindowEnd, Len(sorted_values)))]

\* all_historical_data after the call: sorted(date_values, ...) of line 1449
\* builds a new list and the slice of line 1451 another one, so the series
\* handed in are what they were
after_statistics(historical) == historical

CalculateStockStatistics ==
    /\ stat_pc = "start"
    /\ stock_statistics' =
           calculate_stock_statistics(all_historical_data, sigma_threshold)
    /\ all_historical_data' = after_statistics(all_historical_data)
    /\ stat_pc' = "done"
    /\ UNCHANGED <<psf_pc, day_files, latest_files, file_idx, top_buy_count,
                   top_sell_count, df, daily_all_stocks, daily_buy_stocks,
                   daily_sell_stocks, buy_top20_tracker, sell_top20_tracker,
                   daily_buy_sell_data, statistics, lots_check,
                   sigma_threshold, allowed_stock_codes, norm_vars,
                   report_vars>>

(***************************************************************************)
(* SpecStats: calculate_stock_statistics over drawn series.  A series of   *)
(* n entries holds the dates 1..n, newest or oldest first; the value of    *)
(* the newest date is drawn, the older values follow a pattern.            *)
(***************************************************************************)
PatternValue(d, pattern) ==
    IF pattern = "flat" THEN 1 ELSE IF d % 2 = 0 THEN 3 ELSE 1

SeriesOf(n, newest_first, pattern, latest_value) ==
    [k \in 1..n |->
        LET d == IF newest_first THEN n + 1 - k ELSE k
        IN <<d, IF d = n THEN latest_value ELSE PatternValue(d, pattern)>>]

DrawnSeries ==
    {SeriesOf(n, nf, pat, lv) :
        n \in 0..MaxSeriesLen, nf \in BOOLEAN, pat \in {"flat", "zigzag"},
        lv \in {1, 9}}

\* a second security, just below, at and just above the required length
BesideSeries ==
    {SeriesOf(n, TRUE, "flat", 1) :
        n \in {MinHistory - 1, MinHistory, MinHistory + 1}}

SigmaThresholds == {[num |-> 5, den |-> 2], [num |-> 1, den |-> 1]}

StockA == normalize_stock_code(Code56)
StockB == normalize_stock_code(Code55)

InitStats ==
    /\ stat_pc = "start"
    /\ sigma_threshold \in SigmaThresholds
    /\ stock_statistics = <<>>
    /\ \E sa \in DrawnSeries, sb \in BesideSeries :
          all_historical_data =
              [c \in (IF sa = <<>> THEN {StockB} ELSE {StockA, StockB}) |->
                  IF c = StockA THEN sa ELSE sb]
    /\ allowed_stock_codes = NoneList
    /\ psf_pc = "done"
    /\ day_files = <<>>
    /\ latest_files = <<>>
    /\ file_idx = 0
    /\ top_buy_count = 1
    /\ top_sell_count = 1
    /\ df = <<>>
    /\ daily_all_stocks = <<>>
    /\ daily_buy_stocks = <<>>
    /\ daily_sell_stocks = <<>>
    /\ buy_top20_tracker = <<>>
    /\ sell_top20_tracker = <<>>
    /\ daily_buy_sell_data = <<>>
    /\ statistics = [filtered_out_count |-> 0, processed_count |-> 0]
    /\ lots_check = <<>>
    /\ IdleNorm
    /\ IdleReport

NextStats == CalculateStockStatistics

SpecStats == InitStats /\ [][NextStats]_vars

\* C10: calculate_stock_statistics returns an entry for a security if and
\* only if its series holds at least 30 entries once the most recent one is
\* excluded; a security with fewer is left out of the result.
C10_EntryIffThirtyBasis ==
    stat_pc = "done" =>
        /\ DOMAIN stock_statistics \subseteq DOMAIN all_historical_data
        /\ \A c \in DOMAIN all_historical_data :
              c \in DOMAIN stock_statistics
                  <=> Len(all_historical_data[c]) - 1 >= 30

C10_Witness ==
    /\ stat_pc = "done"
    /\ Len(all_historical_data[StockB]) = 30
    /\ StockB \notin DOMAIN stock_statistics
    /\ StockA \in DOMAIN stock_statistics
    /\ Len(all_historical_data[StockA]) = 31
    /\ stock_statistics[StockA].n = 30

\* the newest date of a series and the values of its other entries
NewestDate(series) ==
    CHOOSE d \in {series[k][1] : k \in DOMAIN series} :
        \A k \in DOMAIN series : series[k][1] <= d

OlderValues(series) ==
    {series[k][2] : k \in {i \in DOMAIN series :
                               series[i][1] # NewestDate(series)}}

LatestValues(series) ==
    {series[k][2] : k \in {i \in DOMAIN series :
                               series[i][1] = NewestDate(series)}}

\* at least 30 values behind the latest one, all of them the same
ConstantBasis(series) ==
    /\ Len(series) >= MinHistory + 1
    /\ Cardinality(OlderValues(series)) = 1

\* C11: when every value of the statistics basis of a security is the same
\* (standard deviation 0), calculate_stock_statistics completes with an
\* entry for the security whose z-score is 0 and whose anomaly flag is
\* false, whatever the latest value and the (positive) sigma threshold.
C11_ZeroStdNoAnomaly ==
    stat_pc = "done" =>
        \A c \in DOMAIN all_historical_data :
            ConstantBasis(all_historical_data[c]) =>
                /\ c \in DOMAIN stock_statistics
                /\ stock_statistics[c].z_sq.num = 0
                /\ ~stock_statistics[c].anomalous

C11_Witness ==
    /\ stat_pc = "done"
    /\ sigma_threshold = [num |-> 1, den |-> 1]
    /\ StockA \in DOMAIN all_historical_data
    /\ ConstantBasis(all_historical_data[StockA])
    /\ OlderValues(all_historical_data[StockA]) = {1}
    /\ LatestValues(all_historical_data[StockA]) = {9}
    /\ stock_statistics[StockA].var_num = 0
    /\ stock_statistics[StockA].z_sq.num = 0
    /\ ~stock_statistics[StockA].anomalous

\* C12 as stated: for a series of identical values followed by one outlier
\* as the most recent value, the anomaly flag is true exactly when the
\* outlier's deviation from the basis mean exceeds sigma_threshold * std
\* of the basis; the basis is constant, so its std is 0 and the product
\* is 0.
C12_OutlierFlagged ==
    stat_pc = "done" =>
        \A c \in DOMAIN all_historical_data :
            LET series == all_historical_data[c]
            IN ConstantBasis(series) =>
                   \A v \in OlderValues(series), l \in LatestValues(series) :
                       LET deviation == IF l >= v THEN l - v ELSE v - l
                       IN /\ c \in DOMAIN stock_statistics
                          /\ stock_statistics[c].anomalous
                                 <=> deviation * sigma_threshold.den
                                         > sigma_threshold.num * 0

\* C12, amended: for a series of identical values followed by one outlier
\* as the most recent value the anomaly flag is false whatever the outlier
\* (the basis has std 0, so the z-score is 0); in every entry the flag is
\* true exactly when the reported std is positive and the latest value
\* lies at least sigma_threshold * std away from the reported mean.
C12_OutlierOverConstantBasisNotFlagged ==
    stat_pc = "done" =>
        /\ \A c \in DOMAIN all_historical_data :
               LET series == all_historical_data[c]
               IN (ConstantBasis(series)
                      /\ LatestValues(series) # OlderValues(series)) =>
                      /\ c \in DOMAIN stock_statistics
                      /\ ~stock_statistics[c].anomalous
        /\ \A c \in DOMAIN stock_statistics :
               LET e == stock_statistics[c]
                   dev == e.n * e.latest - e.total
               IN e.anomalous <=>
                      /\ e.var_num > 0
                      /\ dev * dev * sigma_threshold.den * sigma_threshold.den
                            >= sigma_threshold.num * sigma_threshold.num
                                   * e.var_num

C12_Witness ==
    /\ stat_pc = "done"
    /\ StockA \in DOMAIN all_historical_data
    /\ Len(all_historical_data[StockA]) = 36
    /\ OlderValues(all_historical_data[StockA]) = {1}
    /\ LatestValues(all_historical_data[StockA]) = {9}
    /\ sigma_threshold = [num |-> 5, den |-> 2]
    /\ StockA \in DOMAIN stock_statistics
    /\ stock_statistics[StockA].n = 35
    /\ ~stock_statistics[StockA].anomalous

(***************************************************************************)
(* 4.5 Observable Classifier: analyze_new_entries_and_observables          *)
(* (lines 1474-1605).  A reason is a text, a text a sequence of words; the *)
(* anomaly reason stands for the word that carries the formatted z-score,  *)
(* which the entry keeps beside the reason.                                *)
(***************************************************************************)
PreviousDays == 4      \* previous_dates[:4]
PersistentDays == 3    \* positive_days >= 3, negative_days >= 3

AnomalyReason == <<"anomaly">>            \* the text of line 1548
PersistentBuy == <<"persistent_buy">>     \* the text of line 1556
PersistentSell == <<"persistent_sell">>   \* the text of line 1580
Plus == <<"+">>

\* sorted(keys, reverse=True)
RECURSIVE sorted_desc(_)
sorted_desc(keys) ==
    IF keys = {} THEN <<>>
    ELSE LET newest == CHOOSE x \in keys : \A y \in keys : y <= x
         IN <<newest>> \o sorted_desc(keys \ {newest})

\* sep.join(texts)
RECURSIVE join(_, _)
join(sep, texts) ==
    IF texts = <<>> THEN <<>>
    ELSE IF Len(texts) = 1 THEN texts[1]
    ELSE texts[1] \o sep \o join(sep, Tail(texts))

\* the loops of lines 1525-1529: the union of the sets of the given dates
previous_stocks(dates, daily) ==
    UNION {daily[dates[k]] :
              k \in {i \in DOMAIN dates : dates[i] \in DOMAIN daily}}

\* stock_code in stock_statistics and its flag is set
is_anomalous(stock_code, stats) ==
    /\ stock_code \in DOMAIN stats
    /\ stats[stock_code].anomalous

\* positive_days (sign 1) / negative_days (sign -1) of lines 1550-1554
direction_days(stock_code, dates, all_stocks, sign) ==
    Cardinality({k \in DOMAIN dates :
                    /\ dates[k] \in DOMAIN all_stocks
                    /\ stock_code \in DOMAIN all_stocks[dates[k]]
                    /\ sign * all_stocks[dates[k]][stock_code] > 0})

reasons_of(stock_code, dates, all_stocks, stats, sign, persistent) ==
    (IF is_anomalous(stock_code, stats) THEN <<AnomalyReason>> ELSE <<>>)
    \o (IF direction_days(stock_code, dates, all_stocks, sign)
               >= PersistentDays
        THEN <<persistent>> ELSE <<>>)

\* the loop of lines 1538-1559 (sign 1) and of lines 1562-1583 (sign -1)
observables(codes, dates, all_stocks, stats, sign, persistent) ==
    LET reasons(c) == reasons_of(c, dates, all_stocks, stats, sign, persistent)
        kept == {c \in codes : reasons(c) # <<>>}
    IN [c \in kept |->
           [reason |-> join(Plus, reasons(c)),
            z_sq |-> IF is_anomalous(c, stats) THEN stats[c].z_sq
                     ELSE ZeroScore]]

\* parameters: the rows of latest_file, daily_buy_stocks, daily_sell_stocks,
\* daily_all_stocks, stock_statistics, allowed_stock_codes, top_buy_count
\* and top_sell_count
analyze_new_entries_and_observables(rows, buys, sells, alls, stats, ok, n1, n2) ==
    LET sorted_dates == sorted_desc(DOMAIN buys)
    IN IF Len(sorted_dates) >= 2
       THEN LET previous_dates == Take(Tail(sorted_dates), PreviousDays)
                latest_df == load_frame(rows, ok)
                buy_top_n == nlargest(n1, buy_candidates(latest_df))
                sell_top_n == nsmallest(n2, sell_candidates(latest_df))
            IN [new_buy_stocks |->
                    Get(buys, sorted_dates[1], {})
                        \ previous_stocks(previous_dates, buys),
                new_sell_stocks |->
                    Get(sells, sorted_dates[1], {})
                        \ previous_stocks(previous_dates, sells),
                observable_buy_stocks |->
                    observables(CodesOf(buy_top_n), previous_dates,
                                alls, stats, 1, PersistentBuy),
                observable_sell_stocks |->
                    observables(CodesOf(sell_top_n), previous_dates,
                                alls, stats, -1, PersistentSell),
                latest_date |-> <<sorted_dates[1]>>,
                latest_buy_stocks_n |-> CodesOf(buy_top_n),
                latest_sell_stocks_n |-> CodesOf(sell_top_n)]
       ELSE [new_buy_stocks |-> {}, new_sell_stocks |-> {},
             observable_buy_stocks |-> <<>>,
             observable_sell_stocks |-> <<>>,
             latest_date |-> <<>>,
             latest_buy_stocks_n |-> {}, latest_sell_stocks_n |-> {}]

\* the call of run_step2_analysis (lines 2996-3004): the latest file is
\* latest_61_files[0]; pd.read_csv is reached with two ranked days or more
AnalyzeNewEntriesAndObservables ==
    /\ psf_pc = "done"
    /\ stat_pc = "done"
    /\ ana_pc = "start"
    /\ Len(latest_files) > 0
    /\ Cardinality(DOMAIN daily_buy_stocks) >= 2
           => day_files[latest_files[1]].readable
    /\ LET result == analyze_new_entries_and_observables(
                         day_files[latest_files[1]].rows, daily_buy_stocks,
                         daily_sell_stocks, daily_all_stocks,
                         stock_statistics, allowed_stock_codes,
                         top_buy_count, top_sell_count)
       IN /\ new_buy_stocks' = result.new_buy_stocks
          /\ new_sell_stocks' = result.new_sell_stocks
          /\ observable_buy_stocks' = result.observable_buy_stocks
          /\ observable_sell_stocks' = result.observable_sell_stocks
          /\ latest_date' = result.latest_date
          /\ latest_buy_stocks_n' = result.latest_buy_stocks_n
          /\ latest_sell_stocks_n' = result.latest_sell_stocks_n
    /\ ana_pc' = "done"
    /\ UNCHANGED <<norm_vars, allowed_stock_codes, psf_vars, stat_vars,
                   agg_vars, csh_vars, crawl_vars>>

(***************************************************************************)
(* SpecObs: process_shares_files over 1..ObsDays ranked day-files, then    *)
(* analyze_new_entries_and_observables.  The day-file of date d holds      *)
(* 0056 with the lots of ExampleLots(d) and 0055 buying or selling, or     *)
(* 0055 alone.  The statistics are those of calculate_stock_statistics     *)
(* over drawn series: they stem from the 61-file history, of which only    *)
(* the ranked days are processed here.                                     *)
(***************************************************************************)
ObsDays == 5

ExampleLots(d) ==
    CASE d = 1 -> 500 [] d = 2 -> 600 [] d = 3 -> -200 [] d = 4 -> 700
      [] OTHER -> 900

ObsKinds == {"sells", "buys", "alone"}

ObsDayFile(d, kind) ==
    CASE kind = "sells" ->
             DayFile(<<Row(Code56, ExampleLots(d) * LotSize),
                       Row(Code55, -1500)>>)
      [] kind = "buys" ->
             DayFile(<<Row(Code56, ExampleLots(d) * LotSize),
                       Row(Code55, 2000)>>)
      [] OTHER -> DayFile(<<Row(Code55, -1500)>>)

Quiet == SeriesOf(MinHistory + 1, TRUE, "zigzag", 1)
Spike == SeriesOf(MinHistory + 1, TRUE, "zigzag", 9)

ObsHistories ==
    { <<>>,
      [c \in {StockA} |-> Spike],
      [c \in {StockB} |-> Spike],
      [c \in {StockA, StockB} |-> Quiet] }

ObsTopCounts == {1, 2}

InitObs ==
    /\ \E n \in 1..ObsDays :
          /\ latest_files = [k \in 1..n |-> n + 1 - k]
          /\ \E kinds \in [1..n -> ObsKinds] :
                day_files = [d \in 1..n |-> ObsDayFile(d, kinds[d])]
    /\ top_buy_count \in ObsTopCounts
    /\ top_sell_count = 1
    /\ allowed_stock_codes = NoneList
    /\ EnterPsf
    /\ stat_pc = "done"
    /\ sigma_threshold = [num |-> 5, den |-> 2]
    /\ \E h \in ObsHistories :
          stock_statistics = calculate_stock_statistics(h, sigma_threshold)
    /\ ana_pc = "start"
    /\ new_buy_stocks = {}
    /\ new_sell_stocks = {}
    /\ observable_buy_stocks = <<>>
    /\ observable_sell_stocks = <<>>
    /\ latest_date = <<>>
    /\ latest_buy_stocks_n = {}
    /\ latest_sell_stocks_n = {}
    /\ IdleAgg
    /\ IdleCsh
    /\ IdleCrawl
    /\ IdleNorm

NextObs ==
    \/ ProcessFile
    \/ ReturnResults
    \/ AnalyzeNewEntriesAndObservables

SpecObs == InitObs /\ [][NextObs]_vars

\* the ranked days, newest first, and the sets the claims are stated on
RankedDates == sorted_desc(DOMAIN daily_buy_stocks)
PrecedingDates == Take(Tail(RankedDates), 4)

Top20Union(daily) ==
    UNION {Get(daily, PrecedingDates[k], {}) : k \in DOMAIN PrecedingDates}

\* C13: with at least one ranked day, the new-buy set equals the latest
\* ranked day's top-20 buy set minus the union of the top-20 buy sets of
\* the up-to-4 ranked days that precede it (every latest top-20 buy code
\* is new when no ranked day precedes); the new-sell set likewise.
C13_NewEntries ==
    (ana_pc = "done" /\ RankedDates # <<>>) =>
        /\ new_buy_stocks =
               daily_buy_stocks[RankedDates[1]] \ Top20Union(daily_buy_stocks)
        /\ new_sell_stocks =
               Get(daily_sell_stocks, RankedDates[1], {})
                   \ Top20Union(daily_sell_stocks)

\* C14: the new-buy set and the keys of the observable-buy map are
\* disjoint, and so are the new-sell set and the keys of the observable-sell
\* map: a code that is new is not observable, also when it is anomalous or
\* persistent.
C14_NewAndObservableDisjoint ==
    ana_pc = "done" =>
        /\ new_buy_stocks \cap DOMAIN observable_buy_stocks = {}
        /\ new_sell_stocks \cap DOMAIN observable_sell_stocks = {}

\* the latest day's top-N1 buy and top-N2 sell lists, from its day-file
LatestFrame ==
    load_frame(day_files[latest_files[1]].rows, allowed_stock_codes)
TopN1Buy == CodesOf(nlargest(top_buy_count, buy_candidates(LatestFrame)))
TopN2Sell == CodesOf(nsmallest(top_sell_count, sell_candidates(LatestFrame)))

\* the net volume of a code on a date, 0 when it has no record
NetVolume(c, date) == Get(Get(daily_all_stocks, date, <<>>), c, 0)

Flagged(c) ==
    c \in DOMAIN stock_statistics /\ stock_statistics[c].anomalous

PositiveDays(c) ==
    Cardinality({k \in DOMAIN PrecedingDates :
                    NetVolume(c, PrecedingDates[k]) > 0})
NegativeDays(c) ==
    Cardinality({k \in DOMAIN PrecedingDates :
                    NetVolume(c, PrecedingDates[k]) < 0})

ExpectedReason(anomalous, persistent, word) ==
    IF anomalous /\ persistent THEN <<"anomaly", "+", word>>
    ELSE IF anomalous THEN <<"anomaly">> ELSE <<word>>

\* the scenario of 0056: +500, +600, -200, +700 on the four prior days, in
\* the latest top-20 buy and in a prior day's top-20 buy
Example0056 ==
    /\ Len(RankedDates) = 5
    /\ NetVolume(StockA, 1) = 500
    /\ NetVolume(StockA, 2) = 600
    /\ NetVolume(StockA, 3) = -200
    /\ NetVolume(StockA, 4) = 700
    /\ StockA \in daily_buy_stocks[5]
    /\ StockA \in Top20Union(daily_buy_stocks)
    /\ StockA \in TopN1Buy

\* C15: a code of the latest day's top-N1 buy list that is not in the
\* new-buy set is a key of the observable-buy map if and only if it is
\* flagged anomalous or its net volume is > 0 on at least 3 of the up-to-4
\* preceding ranked days; its reason names each condition that holds,
\* joined by '+'.  0056 in the scenario above is not new-buy and is
\* observable-buy with the persistent-buy reason.  The observable-sell map
\* mirrors this with net volume < 0.
C15_ObservableIff ==
    ana_pc = "done" =>
        /\ \A c \in TopN1Buy \ new_buy_stocks :
               LET a == Flagged(c)
                   p == PositiveDays(c) >= 3
               IN /\ c \in DOMAIN observable_buy_stocks <=> (a \/ p)
                  /\ c \in DOMAIN observable_buy_stocks =>
                         observable_buy_stocks[c].reason
                             = ExpectedReason(a, p, "persistent_buy")
        /\ \A c \in TopN2Sell \ new_sell_stocks :
               LET a == Flagged(c)
                   p == NegativeDays(c) >= 3
               IN /\ c \in DOMAIN observable_sell_stocks <=> (a \/ p)
                  /\ c \in DOMAIN observable_sell_stocks =>
                         observable_sell_stocks[c].reason
                             = ExpectedReason(a, p, "persistent_sell")
        /\ Example0056 =>
               /\ StockA \notin new_buy_stocks
               /\ StockA \in DOMAIN observable_buy_stocks
               /\ "persistent_buy"
                      \in Range(observable_buy_stocks[StockA].reason)

(***************************************************************************)
(* 4.6 Aggregate Reducer: aggregate_analysis (lines 1792-1973).  Left out: *)
(* the name and sector columns (a code has one name), the printed tables   *)
(* and, of the detail rows, the formatted date lists; an entry of the date *)
(* status keeps the date in place of its short label.  sort_values keeps   *)
(* the order of rows of equal sum, as the sort of short frames does.       *)
(***************************************************************************)
\* the keys of a groupby, ascending
RECURSIVE sorted_codes(_)
sorted_codes(codes) ==
    IF codes = {} THEN <<>>
    ELSE LET least == CHOOSE x \in codes :
                          \A y \in codes \ {x} : StrLess(x, y)
         IN <<least>> \o sorted_codes(codes \ {least})

rows_of(table, stock_code) ==
    SelectSeq(table, LAMBDA r : r.code = stock_code)

sum_lots(rows) == SumSeq([k \in DOMAIN rows |-> rows[k].lots])

\* lines 1809-1814: one row per code with the sum of its lots over all the
\* rows of all_tracker and the number of those rows
summary(all_tracker) ==
    LET keys == sorted_codes(CodesOf(all_tracker))
    IN [k \in DOMAIN keys |->
           [code |-> keys[k],
            total |-> sum_lots(rows_of(all_tracker, keys[k])),
            count |-> Len(rows_of(all_tracker, keys[k]))]]

\* a selection that keeps every row of the summary
all_sums(summ) == summ

\* lines 1816 and 1819
buy_summary(summ) == SelectSeq(summ, LAMBDA r : r.total > 0)
sell_summary(summ) == SelectSeq(summ, LAMBDA r : r.total < 0)

\* the indices of keys in ascending order of key, equal keys in the order
\* of their indices
RECURSIVE argsort(_, _)
argsort(keys, todo) ==
    IF todo = {} THEN <<>>
    ELSE LET i == CHOOSE i \in todo :
                      \A j \in todo :
                          \/ keys[i] < keys[j]
                          \/ keys[i] = keys[j] /\ i <= j
         IN <<i>> \o argsort(keys, todo \ {i})

\* rows.sort_values(column, ascending=...), keys the values of the column
sort_values(rows, keys, ascending) ==
    LET signed == IF ascending THEN keys
                  ELSE [k \in DOMAIN keys |-> 0 - keys[k]]
        order == argsort(signed, DOMAIN rows)
    IN [k \in DOMAIN rows |-> rows[order[k]]]

totals(rows) == [k \in DOMAIN rows |-> rows[k].total]

\* DataFrame.head(n)
head(rows, n) ==
    IF n >= 0 THEN Take(rows, n) ELSE SubSeq(rows, 1, Len(rows) + n)

\* lines 1859-1862 and 1890-1893: show_top_n decides when it is given, the
\* threshold is read otherwise
buy_leaderboard(summ, threshold, top_n) ==
    LET positive == buy_summary(summ)
    IN IF top_n # None
       THEN head(sort_values(positive, totals(positive), FALSE), top_n[1])
       ELSE LET kept == SelectSeq(positive,
                                  LAMBDA r : r.total >= threshold[1])
            IN sort_values(kept, totals(kept), FALSE)

sell_leaderboard(summ, threshold, top_n) ==
    LET negative == sell_summary(summ)
    IN IF top_n # None
       THEN head(sort_values(negative, totals(negative), TRUE), top_n[1])
       ELSE LET kept == SelectSeq(negative,
                                  LAMBDA r : r.total <= 0 - threshold[1])
            IN sort_values(kept, totals(kept), TRUE)

\* lines 1864-1867 and 1895-1898: the note column
with_note(rows, both) ==
    [k \in DOMAIN rows |->
        [code |-> rows[k].code, total |-> rows[k].total,
         count |-> rows[k].count, in_both |-> rows[k].code \in both]]

StatusDates == 5    \* all_available_dates[:5]

DatesOf(rows) == {rows[k].date : k \in DOMAIN rows}

\* line 1918: the dates of all_tracker, newest first
all_available_dates(all_tracker) == sorted_desc(DatesOf(all_tracker))

\* a status list that leaves out the dates on which the code was on neither
\* list
date_status_listed_only(dates, buy_dates, sell_dates) ==
    LET listed == SelectSeq(Take(dates, StatusDates),
                            LAMBDA d : d \in buy_dates \cup sell_dates)
    IN [k \in DOMAIN listed |->
           [status |-> IF listed[k] \in buy_dates THEN "buy" ELSE "sell",
            date |-> listed[k]]]

\* lines 1939-1947: one entry per date of all_available_dates[:5]
date_status(dates, buy_dates, sell_dates) ==
    LET shown == Take(dates, StatusDates)
    IN [k \in DOMAIN shown |->
           [status |-> IF shown[k] \in buy_dates THEN "buy"
                       ELSE IF shown[k] \in sell_dates THEN "sell"
                       ELSE "neutral",
            date |-> shown[k]]]

\* lines 1921-1961: the detail row of a code of both_stocks_set
both_detail(stock_code, buy_tracker, sell_tracker) ==
    LET mine == rows_of(buy_tracker \o sell_tracker, stock_code)
    IN [code |-> stock_code,
        buy_count |-> Len(rows_of(buy_tracker, stock_code)),
        sell_count |-> Len(rows_of(sell_tracker, stock_code)),
        buy_sum |-> sum_lots(SelectSeq(mine, LAMBDA r : r.lots > 0)),
        sell_sum |-> sum_lots(SelectSeq(mine, LAMBDA r : r.lots < 0)),
        total |-> sum_lots(mine),
        date_status |->
            date_status(all_available_dates(buy_tracker \o sell_tracker),
                        DatesOf(rows_of(buy_tracker, stock_code)),
                        DatesOf(rows_of(sell_tracker, stock_code)))]

\* the orders in which a loop may go through a set
Orderings(S) ==
    {o \in [1..Cardinality(S) -> S] :
        \A i, j \in DOMAIN o : i # j => o[i] # o[j]}

AggregateAnalysis ==
    /\ psf_pc = "done"
    /\ agg_pc = "start"
    /\ IF buy_top20_tracker = <<>> \/ sell_top20_tracker = <<>>
       THEN /\ buy_stocks' = NoneFrame
            /\ sell_stocks' = NoneFrame
            /\ both_stocks_set' = {}
            /\ both_stocks_df' = NoneFrame
       ELSE LET summ == summary(buy_top20_tracker \o sell_top20_tracker)
                both == CodesOf(buy_top20_tracker)
                            \cap CodesOf(sell_top20_tracker)
            IN /\ show_top_n # None \/ aggregate_threshold # None
               /\ buy_stocks' =
                      Frame(with_note(buy_leaderboard(
                                summ, aggregate_threshold, show_top_n), both))
               /\ sell_stocks' =
                      Frame(with_note(sell_leaderboard(
                                summ, aggregate_threshold, show_top_n), both))
               /\ both_stocks_set' = both
               /\ IF both = {}
                  THEN both_stocks_df' = NoneFrame
                  ELSE \E order \in Orderings(both) :
                          LET detail ==
                                  [k \in DOMAIN order |->
                                      both_detail(order[k], buy_top20_tracker,
                                                  sell_top20_tracker)]
                          IN both_stocks_df' =
                                 Frame(sort_values(detail, totals(detail),
                                                   FALSE))
    /\ agg_pc' = "done"
    /\ UNCHANGED <<aggregate_threshold, show_top_n, exp_pc, norm_vars,
                   allowed_stock_codes, psf_vars, stat_vars, ana_vars,
                   csh_vars, crawl_vars>>

(***************************************************************************)
(* SpecAgg: process_shares_files over 1..AggDays day-files that hold 0056  *)
(* and 0055 with drawn volumes, then aggregate_analysis in one of the      *)
(* selection modes (top-N alone, threshold alone, both given).             *)
(***************************************************************************)
AggDays == 2

AggShares == {3000, 1000, -2000}

AggDayFiles ==
    {DayFile(<<Row(Code56, a), Row(Code55, b)>>) : a, b \in AggShares}

AggModes ==
    { [threshold |-> None, top_n |-> Some(2)],
      [threshold |-> Some(2), top_n |-> None],
      [threshold |-> Some(2), top_n |-> Some(1)] }

InitAgg ==
    /\ \E n \in 1..AggDays :
          /\ latest_files = [k \in 1..n |-> n + 1 - k]
          /\ day_files \in [1..n -> AggDayFiles]
    /\ top_buy_count = 2
    /\ top_sell_count = 2
    /\ allowed_stock_codes = NoneList
    /\ EnterPsf
    /\ agg_pc = "start"
    /\ \E mode \in AggModes :
          /\ aggregate_threshold = mode.threshold
          /\ show_top_n = mode.top_n
    /\ buy_stocks = NoneFrame
    /\ sell_stocks = NoneFrame
    /\ both_stocks_set = {}
    /\ both_stocks_df = NoneFrame
    /\ exp_pc = "idle"
    /\ IdleAna
    /\ IdleCsh
    /\ IdleCrawl
    /\ IdleStat
    /\ IdleNorm

NextAgg ==
    \/ ProcessFile
    \/ ReturnResults
    \/ AggregateAnalysis

SpecAgg == InitAgg /\ [][NextAgg]_vars

\* aggregate_analysis has returned leaderboards
Aggregated == agg_pc = "done" /\ ~buy_stocks.is_none /\ ~sell_stocks.is_none

BothGiven == aggregate_threshold # None /\ show_top_n # None

\* C16: the CrossListing codes returned by aggregate_analysis
\* (both_stocks_set, and the rows of both_stocks_df) are the intersection
\* of the codes of the returned buy leaderboard and the codes of the
\* returned sell leaderboard.
C16_CrossListingIsIntersection ==
    agg_pc = "done" =>
        /\ both_stocks_set
               = CodesOf(buy_stocks.rows) \cap CodesOf(sell_stocks.rows)
        /\ CodesOf(both_stocks_df.rows)
               = CodesOf(buy_stocks.rows) \cap CodesOf(sell_stocks.rows)

\* the top-20-buy contributions of a code, one per processed day
BuyContributions(c) == sum_lots(rows_of(buy_top20_tracker, c))

\* C17: the summed volume of every code of the returned buy leaderboard is
\* the sum of the code's top-20-buy contributions over the processed
\* days, each day once; the days on which it was in the top-20 sell list
\* do not change it.
C17_BuySumIsBuyContributions ==
    Aggregated =>
        \A k \in DOMAIN buy_stocks.rows :
            buy_stocks.rows[k].total
                = BuyContributions(buy_stocks.rows[k].code)

\* C18: in both selection modes every entry of the returned buy
\* leaderboard has a sum > 0 and every entry of the sell leaderboard a sum
\* < 0; the buy leaderboard is in descending order of sum and the sell
\* leaderboard in ascending order (most negative first).
C18_LeaderboardSignsAndOrder ==
    Aggregated =>
        /\ \A k \in DOMAIN buy_stocks.rows : buy_stocks.rows[k].total > 0
        /\ \A k \in DOMAIN sell_stocks.rows : sell_stocks.rows[k].total < 0
        /\ \A k \in 1..(Len(buy_stocks.rows) - 1) :
               buy_stocks.rows[k].total >= buy_stocks.rows[k + 1].total
        /\ \A k \in 1..(Len(sell_stocks.rows) - 1) :
               sell_stocks.rows[k].total <= sell_stocks.rows[k + 1].total

\* two buy entries of different sums in the top-N mode, out of a summary
\* whose order by code is the opposite
C18_Witness ==
    /\ Aggregated
    /\ aggregate_threshold = None
    /\ show_top_n = Some(2)
    /\ Len(buy_stocks.rows) = 2
    /\ buy_stocks.rows[1].code = StockA
    /\ buy_stocks.rows[2].code = StockB
    /\ buy_stocks.rows[1].total > buy_stocks.rows[2].total
    /\ sell_stocks.rows = <<>>
    /\ StockB \in both_stocks_set

\* C19: when a threshold and a top-N count are given together, the run is
\* rejected before any leaderboard is computed.
C19_BothModesRejected ==
    BothGiven => ~Aggregated

(***************************************************************************)
(* SpecStatus: process_shares_files over 1..StatusFiles day-files in which *)
(* 0056 is bought, sold or absent while 0055 is bought, then               *)
(* aggregate_analysis.  With more than five day-files the oldest ones are  *)
(* not ranked.                                                             *)
(***************************************************************************)
StatusFiles == 6

StatusDayFiles ==
    { DayFile(<<Row(Code56, 3000), Row(Code55, 1000)>>),
      DayFile(<<Row(Code56, -2000), Row(Code55, 1000)>>),
      DayFile(<<Row(Code55, 1000)>>) }

InitStatus ==
    /\ \E n \in 1..StatusFiles :
          /\ latest_files = [k \in 1..n |-> n + 1 - k]
          /\ day_files \in [1..n -> StatusDayFiles]
    /\ top_buy_count = 2
    /\ top_sell_count = 2
    /\ allowed_stock_codes = NoneList
    /\ EnterPsf
    /\ agg_pc = "start"
    /\ aggregate_threshold = None
    /\ show_top_n = Some(2)
    /\ buy_stocks = NoneFrame
    /\ sell_stocks = NoneFrame
    /\ both_stocks_set = {}
    /\ both_stocks_df = NoneFrame
    /\ exp_pc = "idle"
    /\ IdleAna
    /\ IdleCsh
    /\ IdleCrawl
    /\ IdleStat
    /\ IdleNorm

NextStatus ==
    \/ ProcessFile
    \/ ReturnResults
    \/ AggregateAnalysis

SpecStatus == InitStatus /\ [][NextStatus]_vars

\* the dates present in the combined buy and sell trackers
TrackerDates == DatesOf(buy_top20_tracker) \cup DatesOf(sell_top20_tracker)

\* the most recent dates of a set, at most n of them
MostRecentOf(dates, n) ==
    {d \in dates : Cardinality({e \in dates : e > d}) < n}

\* the code was in the top-20 list of the date
OnList(daily, d, stock_code) ==
    /\ d \in DOMAIN daily
    /\ \E raw \in daily[d] : normalize_stock_code(raw) = stock_code

\* C26: each CrossListing row carries a per-date direction list with
\* exactly min(5, number of distinct dates of the combined trackers)
\* entries, one per most recent date in descending order of date; an entry
\* is 'buy' when the code was in that date's top-20 buy list, 'sell' when
\* it was in that date's top-20 sell list and 'neutral' otherwise, so a
\* date on which the code was on neither list is still listed.
C26_DateStatus ==
    (agg_pc = "done" /\ ~both_stocks_df.is_none) =>
        \A k \in DOMAIN both_stocks_df.rows :
            LET row == both_stocks_df.rows[k]
                entries == row.date_status
            IN /\ Len(entries) = Min(StatusDates, Cardinality(TrackerDates))
               /\ \A i \in 1..(Len(entries) - 1) :
                      entries[i].date > entries[i + 1].date
               /\ {entries[i].date : i \in DOMAIN entries}
                      = MostRecentOf(TrackerDates, StatusDates)
               /\ \A i \in DOMAIN entries :
                      entries[i].status =
                          IF OnList(daily_buy_stocks, entries[i].date,
                                    row.code)
                          THEN "buy"
                          ELSE IF OnList(daily_sell_stocks, entries[i].date,
                                         row.code)
                          THEN "sell"
                          ELSE "neutral"

\* six day-files, five of them ranked: the row of 0056 has five entries,
\* with a day bought, a day sold and a day on neither list
C26_Witness ==
    /\ agg_pc = "done"
    /\ ~both_stocks_df.is_none
    /\ Len(latest_files) = 6
    /\ \E k \in DOMAIN both_stocks_df.rows :
          LET entries == both_stocks_df.rows[k].date_status
          IN /\ both_stocks_df.rows[k].code = StockA
             /\ Len(entries) = StatusDates
             /\ \E i \in DOMAIN entries : entries[i].status = "buy"
             /\ \E i \in DOMAIN entries : entries[i].status = "sell"
             /\ \E i \in DOMAIN entries : entries[i].status = "neutral"

(***************************************************************************)
(* 4.7 History Collector: collect_stock_history (lines 1610-1788).  A row  *)
(* of a flow or price file is [code, name, shares, close]: shares stands   *)
(* for the share columns handed to shares_to_lots (the three institutional *)
(* columns of a flow file, the traded shares of a price file), close for   *)
(* the price columns copied as they are.  A merged record keeps its flow   *)
(* fields under has_flow and its price fields under has_price; a field     *)
(* whose flag is FALSE is an empty cell of the written file.               *)
(***************************************************************************)
CutoffDate == 1       \* file_date >= '2025-01-01'

HRow(c, name, n, close) ==
    [code |-> c, name |-> name, shares |-> Num(n), close |-> close]

\* lines 1651-1655 and 1710-1714
csh_frame(rows, allowed) ==
    filter_allowed([k \in DOMAIN rows |->
                       [rows[k] EXCEPT !.code = normalize_stock_code(@)]],
                   allowed)

\* the files of a folder dated on or after the cut-off, newest first
files_2025(files) == sorted_desc({d \in DOMAIN files : d >= CutoffDate})

\* lines 1665-1669 and 1723-1727
new_record(file_date, stock_code, name) ==
    [date |-> file_date, code |-> stock_code, name |-> name,
     has_flow |-> FALSE, flow |-> 0,
     has_price |-> FALSE, volume |-> 0, close |-> 0]

\* lines 1671-1673 (flow) and 1729-1736 (price)
with_fields(record, row, phase) ==
    IF phase = "flow"
    THEN [record EXCEPT !.has_flow = TRUE,
                        !.flow = shares_to_lots(row.shares)]
    ELSE [record EXCEPT !.has_price = TRUE,
                        !.volume = shares_to_lots(row.shares),
                        !.close = row.close]

\* the loop over all_target_stocks inside the try of one file (lines
\* 1659-1673 and 1716-1738).  A record is created with
\* row.get('證券名稱', '').strip(): on a blank name cell (NaN) this raises,
\* the except clause of the file is taken and the targets not reached yet
\* get nothing from the file.
RECURSIVE collect_file(_, _, _, _, _)
collect_file(frame, file_date, targets, data, phase) ==
    IF targets = <<>> THEN data
    ELSE LET stock_code == Head(targets)
             stock_data == rows_of(frame, stock_code)
         IN IF stock_data = <<>>
            THEN collect_file(frame, file_date, Tail(targets), data, phase)
            ELSE LET row == stock_data[1]
                     known == file_date \in DOMAIN data[stock_code]
                 IN IF ~known /\ row.name = NaN
                    THEN data
                    ELSE LET record ==
                                 IF known THEN data[stock_code][file_date]
                                 ELSE new_record(file_date, stock_code,
                                                 strip(row.name))
                             merged == with_fields(record, row, phase)
                         IN collect_file(
                                frame, file_date, Tail(targets),
                                [data EXCEPT ![stock_code] =
                                    Put(@, file_date, merged)],
                                phase)

\* pd.read_csv of the file and the loop; an unreadable file changes nothing
collect_from(content, file_date, targets, data, allowed, phase) ==
    IF content.readable
    THEN collect_file(csh_frame(content.rows, allowed), file_date, targets,
                      data, phase)
    ELSE data

\* lines 1765-1780: the columns of column_order some record holds, the
\* records sorted by date, newest first
history_file(date_dict) ==
    LET dates == sorted_desc(DOMAIN date_dict)
        rows == [k \in DOMAIN dates |-> date_dict[dates[k]]]
    IN [columns |->
            <<"date", "code", "name">>
            \o (IF \E k \in DOMAIN rows : rows[k].has_price
                THEN <<"volume", "close">> ELSE <<>>)
            \o (IF \E k \in DOMAIN rows : rows[k].has_flow
                THEN <<"flow">> ELSE <<>>),
        rows |-> rows]

\* line 1620: nothing to collect
ReturnNoTargets ==
    /\ csh_pc = "start"
    /\ Len(target_stocks) = 0
    /\ csh_pc' = "done"
    /\ UNCHANGED <<target_stocks, shares_folder, daily_folder, shares_idx,
                   daily_idx, stock_history_data, history_files, norm_vars,
                   allowed_stock_codes, psf_vars, stat_vars, ana_vars,
                   agg_vars, crawl_vars>>

\* lines 1629-1631
StartCollect ==
    /\ csh_pc = "start"
    /\ Len(target_stocks) > 0
    /\ stock_history_data' = [c \in Range(target_stocks) |-> <<>>]
    /\ csh_pc' = "collect"
    /\ UNCHANGED <<target_stocks, shares_folder, daily_folder, shares_idx,
                   daily_idx, history_files, norm_vars, allowed_stock_codes,
                   psf_vars, stat_vars, ana_vars, agg_vars, crawl_vars>>

\* one pass of the loop of lines 1647-1678
CollectSharesFile ==
    /\ csh_pc = "collect"
    /\ shares_idx < Len(files_2025(shares_folder))
    /\ LET file_date == files_2025(shares_folder)[shares_idx + 1]
       IN stock_history_data' =
              collect_from(shares_folder[file_date], file_date,
                           target_stocks, stock_history_data,
                           allowed_stock_codes, "flow")
    /\ shares_idx' = shares_idx + 1
    /\ UNCHANGED <<csh_pc, target_stocks, shares_folder, daily_folder,
                   daily_idx, history_files, norm_vars, allowed_stock_codes,
                   psf_vars, stat_vars, ana_vars, agg_vars, crawl_vars>>

\* one pass of the loop of lines 1700-1743
CollectDailyFile ==
    /\ csh_pc = "collect"
    /\ shares_idx = Len(files_2025(shares_folder))
    /\ daily_folder.exists
    /\ daily_idx < Len(files_2025(daily_folder.files))
    /\ LET file_date == files_2025(daily_folder.files)[daily_idx + 1]
       IN stock_history_data' =
              collect_from(daily_folder.files[file_date], file_date,
                           target_stocks, stock_history_data,
                           allowed_stock_codes, "price")
    /\ daily_idx' = daily_idx + 1
    /\ UNCHANGED <<csh_pc, target_stocks, shares_folder, daily_folder,
                   shares_idx, history_files, norm_vars, allowed_stock_codes,
                   psf_vars, stat_vars, ana_vars, agg_vars, crawl_vars>>

\* lines 1755-1786: one file per security that has a record
SaveHistory ==
    /\ csh_pc = "collect"
    /\ shares_idx = Len(files_2025(shares_folder))
    /\ daily_folder.exists => daily_idx = Len(files_2025(daily_folder.files))
    /\ history_files' =
           [c \in {x \in DOMAIN stock_history_data :
                      DOMAIN stock_history_data[x] # {}} |->
               history_file(stock_history_data[c])]
    /\ csh_pc' = "done"
    /\ UNCHANGED <<target_stocks, shares_folder, daily_folder, shares_idx,
                   daily_idx, stock_history_data, norm_vars,
                   allowed_stock_codes, psf_vars, stat_vars, ana_vars,
                   agg_vars, crawl_vars>>

(***************************************************************************)
(* SpecHist: collect_stock_history over a flow folder and a price folder   *)
(* with the dates 0..MaxHistDate, date 0 lying before the cut-off.  0056   *)
(* and 0055 are the targets, taken in either order; a file is absent,      *)
(* unreadable, or holds rows of the targets, one of them with a blank name *)
(* cell.                                                                   *)
(***************************************************************************)
MaxHistDate == 2

NameCell == <<"A", " ">>

TargetOrders == {<<>>, <<StockA, StockB>>, <<StockB, StockA>>}

FlowFileKinds == {"absent", "unreadable", "a", "blank_a_and_b"}
PriceFileKinds == {"absent", "a", "blank_b"}

FileOfKind(kind) ==
    CASE kind = "unreadable" -> Unreadable
      [] kind = "a" -> DayFile(<<HRow(Code56, NameCell, 2500, 10)>>)
      [] kind = "blank_a_and_b" ->
             DayFile(<<HRow(Code56, NaN, 2500, 10),
                       HRow(Code55, NameCell, -1500, 20)>>)
      [] kind = "blank_b" -> DayFile(<<HRow(Code55, NaN, 999, 20)>>)

\* the folder that holds the files of the kinds chosen per date
FolderOf(kinds) ==
    [d \in {x \in DOMAIN kinds : kinds[x] # "absent"} |->
        FileOfKind(kinds[d])]

\* date 0 holds a flow file of 0056 or none, and no price file
FlowChoices ==
    {k \in [0..MaxHistDate -> FlowFileKinds] : k[0] \in {"absent", "a"}}
PriceChoices ==
    {k \in [0..MaxHistDate -> PriceFileKinds] : k[0] = "absent"}

InitHist ==
    /\ csh_pc = "start"
    /\ target_stocks \in TargetOrders
    /\ \E kinds \in FlowChoices : shares_folder = FolderOf(kinds)
    /\ \/ daily_folder = MissingFolder
       \/ \E kinds \in PriceChoices : daily_folder = Folder(FolderOf(kinds))
    /\ shares_idx = 0
    /\ daily_idx = 0
    /\ stock_history_data = <<>>
    /\ history_files = <<>>
    /\ allowed_stock_codes = NoneList
    /\ IdlePsf
    /\ IdleStat
    /\ IdleAna
    /\ IdleAgg
    /\ IdleCrawl
    /\ IdleNorm

NextHist ==
    \/ ReturnNoTargets
    \/ StartCollect
    \/ CollectSharesFile
    \/ CollectDailyFile
    \/ SaveHistory

SpecHist == InitHist /\ [][NextHist]_vars

\* the dates on which a folder holds a record of a code
RecordDates(files, c) ==
    {d \in DOMAIN files :
        /\ files[d].readable
        /\ rows_of(csh_frame(files[d].rows, allowed_stock_codes), c) # <<>>}

FlowDates(c) == RecordDates(shares_folder, c)
PriceDates(c) ==
    IF daily_folder.exists THEN RecordDates(daily_folder.files, c) ELSE {}

Emitted(c) ==
    IF c \in DOMAIN history_files THEN history_files[c].rows ELSE <<>>

\* C20: the dates of the records collect_stock_history emits for a target
\* security are the union of its flow dates and its price dates, with
\* exactly one record per date; a record of a date that has a flow record
\* and no price record has its price fields empty, and a record of a date
\* that has only a price record has its flow fields empty.
C20_UnionJoin ==
    csh_pc = "done" =>
        \A c \in Range(target_stocks) :
            LET rows == Emitted(c)
            IN /\ {rows[k].date : k \in DOMAIN rows}
                      = FlowDates(c) \cup PriceDates(c)
               /\ Len(rows) = Cardinality(FlowDates(c) \cup PriceDates(c))
               /\ \A k \in DOMAIN rows :
                      /\ rows[k].has_flow <=> rows[k].date \in FlowDates(c)
                      /\ rows[k].has_price <=> rows[k].date \in PriceDates(c)

(***************************************************************************)
(* SpecCap: collect_stock_history over a long flow folder.  The folder     *)
(* holds one file per date 1..n, each with a row of 0056, for n one more   *)
(* than the 100 days the closing message of line 1787 announces; the price *)
(* folder is missing or holds the file of date 1.                          *)
(***************************************************************************)
OutputCap == 100      \* line 1787: "最近100天的合併數據"

CapFolderSizes == {OutputCap + 1}

LongFolder(n) == [d \in 1..n |-> FileOfKind("a")]

InitCap ==
    /\ csh_pc = "start"
    /\ target_stocks = <<StockA>>
    /\ \E n \in CapFolderSizes : shares_folder = LongFolder(n)
    /\ daily_folder \in {MissingFolder, Folder(LongFolder(1))}
    /\ shares_idx = 0
    /\ daily_idx = 0
    /\ stock_history_data = <<>>
    /\ history_files = <<>>
    /\ allowed_stock_codes = NoneList
    /\ IdlePsf
    /\ IdleStat
    /\ IdleAna
    /\ IdleAgg
    /\ IdleCrawl
    /\ IdleNorm

NextCap ==
    \/ StartCollect
    \/ CollectSharesFile
    \/ CollectDailyFile
    \/ SaveHistory

SpecCap == InitCap /\ [][NextCap]_vars

\* the dates for which a flow or a price record of a code is available
AvailableDates(c) == FlowDates(c) \cup PriceDates(c)

\* the n most recent dates of a set
MostRecent(dates, n) ==
    {d \in dates : Cardinality({e \in dates : e > d}) < n}

EmittedDates(c) == {Emitted(c)[k].date : k \in DOMAIN Emitted(c)}

\* C21: the record list emitted for a security never holds more than the
\* 100 most recent merged days: with more than 100 available dates only the
\* 100 most recent are emitted.
C21_OutputCapped ==
    csh_pc = "done" =>
        \A c \in Range(target_stocks) :
            /\ Len(Emitted(c)) <= OutputCap
            /\ Cardinality(AvailableDates(c)) > OutputCap =>
                   EmittedDates(c) = MostRecent(AvailableDates(c), OutputCap)

\* C22: the record list emitted for a security is sorted by date ascending,
\* oldest record first.
C22_SortedAscending ==
    csh_pc = "done" =>
        \A c \in DOMAIN history_files :
            \A i, j \in DOMAIN Emitted(c) :
                i < j => Emitted(c)[i].date < Emitted(c)[j].date

(***************************************************************************)
(* SpecSkip: process_shares_files over the list of the day-files of the    *)
(* dates SkipDays..1, newest first, as get_latest_files returns it.  A     *)
(* day-file is unreadable, complete, or lacks the column '證券名稱'.       *)
(***************************************************************************)
SkipDays == 6

SkipDayFiles ==
    { Unreadable,
      DayFile(<<Row(Code56, 2000), Row(Code55, -1500)>>),
      NamelessDayFile(<<Row(Code56, 2000), Row(Code55, -1500)>>),
      NamelessDayFile(<<Row(Code55, -1500)>>) }

InitSkip ==
    /\ day_files \in [1..SkipDays -> SkipDayFiles]
    /\ latest_files = [k \in 1..SkipDays |-> SkipDays + 1 - k]
    /\ top_buy_count = 1
    /\ top_sell_count = 1
    /\ allowed_stock_codes = NoneList
    /\ EnterPsf
    /\ IdleNorm
    /\ IdleReport
    /\ IdleStat

NextSkip ==
    \/ ProcessFile
    \/ ProcessFileRaises
    \/ SkipUnreadable
    \/ ReturnResults

SpecSkip == InitSkip /\ [][NextSkip]_vars

\* the list without its unreadable day-files
ReadableFiles == SelectSeq(latest_files, LAMBDA f : day_files[f].readable)

SkippedDays == Len(latest_files) - Len(ReadableFiles)

AllNamed == \A k \in DOMAIN latest_files : day_files[latest_files[k]].name_column

\* all_historical_data after the rows of the files of a list, in its order
RECURSIVE HistoryOver(_)
HistoryOver(files) ==
    IF files = <<>> THEN <<>>
    ELSE LET file_date == files[Len(files)]
         IN accumulate_rows(
                load_frame(day_files[file_date].rows, allowed_stock_codes),
                file_date, allowed_stock_codes,
                [day |-> <<>>,
                 hist |-> HistoryOver(SubSeq(files, 1, Len(files) - 1))]).hist

\* C23: an unreadable day-file of the list is skipped and counted in the
\* returned statistics, and the other day-files are accumulated as if the
\* unreadable one were not in the list: the history and the per-day volumes
\* are those of the readable files, and the ranked days are the first five
\* of the readable files.
C23_UnreadableSkippedAndCounted ==
    (psf_pc = "done" /\ AllNamed) =>
        /\ \E f \in DOMAIN statistics : statistics[f] = SkippedDays
        /\ all_historical_data = HistoryOver(ReadableFiles)
        /\ DOMAIN daily_all_stocks = Range(ReadableFiles)
        /\ DOMAIN daily_buy_stocks = Range(Take(ReadableFiles, RankedDays))
        /\ DOMAIN daily_sell_stocks = Range(Take(ReadableFiles, RankedDays))

(***************************************************************************)
(* 4.8 run_step2_analysis (lines 2972-3065): process_shares_files, then    *)
(* calculate_stock_statistics, analyze_new_entries_and_observables,        *)
(* collect_stock_history over the flow folder (TOP_STOCKS_ONLY is True),   *)
(* aggregate_analysis and export_to_excel.  An exception of a phase leaves *)
(* run_step2_analysis; the position of the phase is then "raised".         *)
(***************************************************************************)
\* line 2993
RunStatistics == psf_pc = "done" /\ CalculateStockStatistics

\* line 1501: pd.read_csv(latest_file) is not inside a try
AnalyzeRaises ==
    /\ psf_pc = "done"
    /\ stat_pc = "done"
    /\ ana_pc = "start"
    /\ Len(latest_files) > 0
    /\ Cardinality(DOMAIN daily_buy_stocks) >= 2
    /\ ~day_files[latest_files[1]].readable
    /\ ana_pc' = "raised"
    /\ UNCHANGED <<new_buy_stocks, new_sell_stocks, observable_buy_stocks,
                   observable_sell_stocks, latest_date, latest_buy_stocks_n,
                   latest_sell_stocks_n, norm_vars, allowed_stock_codes,
                   psf_vars, stat_vars, agg_vars, csh_vars, crawl_vars>>

\* a day-file as collect_stock_history reads it: row.get('證券名稱', '') is
\* the name cell, or '' when the file has no such column
flow_file(content) ==
    [readable |-> content.readable,
     rows |-> [k \in DOMAIN content.rows |->
                  [code |-> content.rows[k].code,
                   name |-> IF content.name_column THEN <<"A", " ">> ELSE <<>>,
                   shares |-> content.rows[k].shares,
                   close |-> 0]],
     name_column |-> content.name_column]

\* lines 3006-3028: the targets are the latest top-N lists, the flow folder
\* is the folder of the day-files
RunCollect ==
    /\ ana_pc = "done"
    /\ csh_pc = "idle"
    /\ target_stocks' \in
           Orderings(latest_buy_stocks_n \cup latest_sell_stocks_n)
    /\ shares_folder' = [d \in DOMAIN day_files |-> flow_file(day_files[d])]
    /\ csh_pc' = "start"
    /\ UNCHANGED <<daily_folder, shares_idx, daily_idx, stock_history_data,
                   history_files, norm_vars, allowed_stock_codes, psf_vars,
                   stat_vars, ana_vars, agg_vars, crawl_vars>>

\* lines 3031-3035
RunAggregate == csh_pc = "done" /\ AggregateAnalysis

\* line 1851: with show_top_n None, aggregate_threshold > 0 is evaluated and
\* raises TypeError when aggregate_threshold is None too
AggregateRaises ==
    /\ csh_pc = "done"
    /\ psf_pc = "done"
    /\ agg_pc = "start"
    /\ buy_top20_tracker # <<>>
    /\ sell_top20_tracker # <<>>
    /\ show_top_n = None
    /\ aggregate_threshold = None
    /\ agg_pc' = "raised"
    /\ UNCHANGED <<aggregate_threshold, show_top_n, buy_stocks, sell_stocks,
                   both_stocks_set, both_stocks_df, exp_pc, norm_vars,
                   allowed_stock_codes, psf_vars, stat_vars, ana_vars,
                   csh_vars, crawl_vars>>

\* lines 3038-3065: the report is written when both leaderboards exist
ExportToExcel ==
    /\ agg_pc = "done"
    /\ exp_pc = "start"
    /\ ~buy_stocks.is_none /\ ~sell_stocks.is_none
    /\ exp_pc' = "done"
    /\ UNCHANGED <<agg_pc, aggregate_threshold, show_top_n, buy_stocks,
                   sell_stocks, both_stocks_set, both_stocks_df, norm_vars,
                   allowed_stock_codes, psf_vars, stat_vars, ana_vars,
                   csh_vars, crawl_vars>>

\* line 1987: pd.ExcelWriter(output_path) fails (the path cannot be written)
ExportRaises ==
    /\ agg_pc = "done"
    /\ exp_pc = "start"
    /\ ~buy_stocks.is_none /\ ~sell_stocks.is_none
    /\ exp_pc' = "raised"
    /\ UNCHANGED <<agg_pc, aggregate_threshold, show_top_n, buy_stocks,
                   sell_stocks, both_stocks_set, both_stocks_df, norm_vars,
                   allowed_stock_codes, psf_vars, stat_vars, ana_vars,
                   csh_vars, crawl_vars>>

\* line 3038: no report when a leaderboard is None
SkipExport ==
    /\ agg_pc = "done"
    /\ exp_pc = "start"
    /\ buy_stocks.is_none \/ sell_stocks.is_none
    /\ exp_pc' = "skipped"
    /\ UNCHANGED <<agg_pc, aggregate_threshold, show_top_n, buy_stocks,
                   sell_stocks, both_stocks_set, both_stocks_df, norm_vars,
                   allowed_stock_codes, psf_vars, stat_vars, ana_vars,
                   csh_vars, crawl_vars>>

(***************************************************************************)
(* SpecRun: one run of run_step2_analysis over the day-files of the dates  *)
(* RunDays..1.  A day-file is unreadable, complete with 0056 bought and    *)
(* 0055 sold or the other way round, or lacks the column '證券名稱'.  There *)
(* is no price folder.                                                     *)
(***************************************************************************)
RunDays == 3

RunDayFiles ==
    { Unreadable,
      DayFile(<<Row(Code56, 2000), Row(Code55, -1500)>>),
      DayFile(<<Row(Code55, 3000), Row(Code56, -2500)>>),
      NamelessDayFile(<<Row(Code56, 2000), Row(Code55, -1500)>>) }

RunModes == AggModes \cup {[threshold |-> None, top_n |-> None]}

InitRun ==
    /\ day_files \in [1..RunDays -> RunDayFiles]
    /\ latest_files = [k \in 1..RunDays |-> RunDays + 1 - k]
    /\ top_buy_count = 1
    /\ top_sell_count = 1
    /\ allowed_stock_codes = NoneList
    /\ EnterPsf
    /\ stat_pc = "start"
    /\ sigma_threshold = [num |-> 5, den |-> 2]
    /\ stock_statistics = <<>>
    /\ ana_pc = "start"
    /\ new_buy_stocks = {}
    /\ new_sell_stocks = {}
    /\ observable_buy_stocks = <<>>
    /\ observable_sell_stocks = <<>>
    /\ latest_date = <<>>
    /\ latest_buy_stocks_n = {}
    /\ latest_sell_stocks_n = {}
    /\ agg_pc = "start"
    /\ \E mode \in RunModes :
          /\ aggregate_threshold = mode.threshold
          /\ show_top_n = mode.top_n
    /\ buy_stocks = NoneFrame
    /\ sell_stocks = NoneFrame
    /\ both_stocks_set = {}
    /\ both_stocks_df = NoneFrame
    /\ exp_pc = "start"
    /\ IdleCsh
    /\ IdleCrawl
    /\ IdleNorm

NextRun ==
    \/ ProcessFile
    \/ ProcessFileRaises
    \/ SkipUnreadable
    \/ ReturnResults
    \/ RunStatistics
    \/ AnalyzeNewEntriesAndObservables
    \/ AnalyzeRaises
    \/ RunCollect
    \/ ReturnNoTargets
    \/ StartCollect
    \/ CollectSharesFile
    \/ SaveHistory
    \/ RunAggregate
    \/ AggregateRaises
    \/ ExportToExcel
    \/ ExportRaises
    \/ SkipExport

SpecRun == InitRun /\ [][NextRun]_vars

\* a phase after the accumulation has raised
RunFailed == ana_pc = "raised" \/ agg_pc = "raised" \/ exp_pc = "raised"

\* C24: when a phase after the accumulation fails (classification, history
\* collection, aggregation or export), the run has written no per-security
\* history file and no report.
C24_NoArtifactOfFailedRun ==
    RunFailed => (DOMAIN history_files = {} /\ exp_pc # "done")

\* C27: calculate_stock_statistics, analyze_new_entries_and_observables
\* and aggregate_analysis leave every accumulated structure as
\* process_shares_files returned it: all_historical_data (the order of each
\* series included), daily_buy_stocks, daily_sell_stocks, daily_all_stocks,
\* buy_top20_tracker and sell_top20_tracker.
C27_AccumulatedUnchanged ==
    [][(RunStatistics \/ AnalyzeNewEntriesAndObservables \/ RunAggregate)
           => UNCHANGED <<all_historical_data, daily_buy_stocks,
                          daily_sell_stocks, daily_all_stocks,
                          buy_top20_tracker, sell_top20_tracker>>]_vars

\* the three functions have returned in a run whose day-files filled the
\* series, the daily sets and both trackers
C27_Witness ==
    /\ stat_pc = "done"
    /\ ana_pc = "done"
    /\ agg_pc = "done"
    /\ ~both_stocks_df.is_none
    /\ \E c \in DOMAIN all_historical_data :
          Len(all_historical_data[c]) = RunDays
    /\ DOMAIN daily_buy_stocks # {}
    /\ DOMAIN daily_all_stocks # {}
    /\ buy_top20_tracker # <<>>
    /\ sell_top20_tracker # <<>>

\* the top-n buy and sell codes of the day-file of a date, as
\* analyze_new_entries_and_observables takes them from a file
TopBuyOfDay(d) ==
    CodesOf(nlargest(top_buy_count,
                     buy_candidates(load_frame(day_files[d].rows,
                                               allowed_stock_codes))))

TopSellOfDay(d) ==
    CodesOf(nsmallest(top_sell_count,
                      sell_candidates(load_frame(day_files[d].rows,
                                                 allowed_stock_codes))))

\* C28: the latest-day top-N1 / top-N2 sets evaluated for observability
\* come from the same trading day as the returned latest_date, the day
\* whose top-20 sets give the new entrants; also when the newest day-file
\* was only partly processed, so that the newest date of daily_buy_stocks
\* is older than the newest file.
C28_LatestSetsOfLatestDate ==
    (ana_pc = "done" /\ latest_date # <<>>) =>
        /\ latest_buy_stocks_n = TopBuyOfDay(latest_date[1])
        /\ latest_sell_stocks_n = TopSellOfDay(latest_date[1])

\* the processing of the day-file of the date raises: pd.read_csv fails,
\* or the day is ranked and a selection with the name column raises
RaisesOn(d) ==
    LET content == day_files[d]
        frame == load_frame(content.rows, allowed_stock_codes)
    IN \/ ~content.readable
       \/ /\ d \in Range(Take(latest_files, RankedDays))
          /\ \/ selection_raises(content,
                                 nlargest(top_buy_count, buy_candidates(frame)))
             \/ selection_raises(content,
                                 nsmallest(top_sell_count,
                                           sell_candidates(frame)))

\* C29: a day-file whose processing raises inside process_shares_files
\* contributes to none of the accumulated outputs: after the function
\* returns its date is absent from daily_all_stocks, from every series of
\* all_historical_data, from daily_buy_stocks and daily_sell_stocks and
\* from both top-20 trackers.
C29_RaisingDayLeavesNothing ==
    psf_pc = "done" =>
        \A d \in Range(latest_files) :
            RaisesOn(d) =>
                /\ d \notin DOMAIN daily_all_stocks
                /\ \A c \in DOMAIN all_historical_data :
                       \A k \in DOMAIN all_historical_data[c] :
                           all_historical_data[c][k][1] # d
                /\ d \notin DOMAIN daily_buy_stocks
                /\ d \notin DOMAIN daily_sell_stocks
                /\ d \notin DatesOf(buy_top20_tracker)
                /\ d \notin DatesOf(sell_top20_tracker)

(***************************************************************************)
(* SpecWindow: calculate_stock_statistics over a series longer than the    *)
(* window.  The series of 0056 holds the dates 1..n, appended newest       *)
(* first, oldest first, or the odd dates before the even ones; the value   *)
(* of the newest date and the value of the dates older than the window are *)
(* drawn, the values in between follow a pattern.                          *)
(***************************************************************************)
WindowSlack == 2    \* the series has up to WindowSlack entries beyond the window

AppendOrders == {"newest_first", "oldest_first", "odd_then_even"}

\* the date of the k-th appended entry of a series of n entries
AppendedDate(n, order, k) ==
    CASE order = "newest_first" -> n + 1 - k
      [] order = "oldest_first" -> k
      [] order = "odd_then_even" ->
             IF k <= (n + 1) \div 2 THEN 2 * k - 1
             ELSE 2 * (k - (n + 1) \div 2)

LongSeries(n, order, pattern, latest_value, old_value) ==
    [k \in 1..n |->
        LET d == AppendedDate(n, order, k)
        IN <<d, IF d = n THEN latest_value
                ELSE IF d <= n - WindowEnd THEN old_value
                ELSE PatternValue(d, pattern)>>]

WindowSeries ==
    {LongSeries(n, order, pat, lv, ov) :
        n \in (WindowEnd + 1)..(WindowEnd + WindowSlack),
        order \in AppendOrders, pat \in {"flat", "zigzag"},
        lv \in {1, 9}, ov \in {1, 7}}

InitWindow ==
    /\ stat_pc = "start"
    /\ sigma_threshold \in SigmaThresholds
    /\ stock_statistics = <<>>
    /\ \E sa \in WindowSeries : all_historical_data = [c \in {StockA} |-> sa]
    /\ allowed_stock_codes = NoneList
    /\ psf_pc = "done"
    /\ day_files = <<>>
    /\ latest_files = <<>>
    /\ file_idx = 0
    /\ top_buy_count = 1
    /\ top_sell_count = 1
    /\ df = <<>>
    /\ daily_all_stocks = <<>>
    /\ daily_buy_stocks = <<>>
    /\ daily_sell_stocks = <<>>
    /\ buy_top20_tracker = <<>>
    /\ sell_top20_tracker = <<>>
    /\ daily_buy_sell_data = <<>>
    /\ statistics = [filtered_out_count |-> 0, processed_count |-> 0]
    /\ lots_check = <<>>
    /\ IdleNorm
    /\ IdleReport

NextWindow == CalculateStockStatistics

SpecWindow == InitWindow /\ [][NextWindow]_vars

\* the number of entries of a series that are newer than its k-th entry
NewerEntries(series, k) ==
    Cardinality({j \in DOMAIN series : series[j][1] > series[k][1]})

\* the values of the 60 entries that precede the most recent one in date
\* order, 0 standing for the entries outside
PrecedingSixty(series) ==
    [k \in DOMAIN series |->
        IF NewerEntries(series, k) \in 1..(WindowEnd - 1)
        THEN series[k][2] ELSE 0]

Squares(xs) == [k \in DOMAIN xs |-> xs[k] * xs[k]]

\* C25: for a series of more than 61 entries the mean and the standard
\* deviation are those of the 60 entries that precede the most recent entry
\* in date order, whatever the order the entries were appended in: the most
\* recent entry and the entries older than those 60 do not contribute.
C25_WindowOfSixty ==
    stat_pc = "done" =>
        \A c \in DOMAIN all_historical_data :
            Len(all_historical_data[c]) > WindowEnd =>
                /\ c \in DOMAIN stock_statistics
                /\ LET basis == PrecedingSixty(all_historical_data[c])
                       entry == stock_statistics[c]
                   IN /\ entry.n = WindowEnd - 1
                      /\ entry.total = SumSeq(basis)
                      /\ entry.var_num =
                             entry.n * SumSeq(Squares(basis))
                             - SumSeq(basis) * SumSeq(basis)

\* a series of more than 61 entries, not appended newest first, whose
\* newest value 9 and oldest value 7 lie outside the values of the window,
\* has its entry
C25_Witness ==
    /\ stat_pc = "done"
    /\ StockA \in DOMAIN stock_statistics
    /\ Len(all_historical_data[StockA]) > WindowEnd
    /\ all_historical_data[StockA][1][1] = 1
    /\ \E k \in DOMAIN all_historical_data[StockA] :
           all_historical_data[StockA][k][2] = 9
    /\ \E k \in DOMAIN all_historical_data[StockA] :
           all_historical_data[StockA][k][2] = 7

(***************************************************************************)
(* 4.1 Crawler: crawl_twse_daily (lines 288-343) and                       *)
(* crawl_twse_institutional (lines 365-417), as run_step1_crawler calls    *)
(* them one after the other.  A date is a day number, day 1 being          *)
(* start_date = 2025-01-01, a Wednesday; end_date is the day of the run.   *)
(* A download succeeds or fails (no answer, an empty answer, a day without *)
(* trading); the content of a file is left out.                            *)
(***************************************************************************)
StartDate == 1          \* datetime(2025, 1, 1)
StartWeekday == 2       \* datetime(2025, 1, 1).weekday()
WorkDays == 5           \* curr.weekday() < 5

Crawlers == {"daily", "institutional"}

weekday(d) == (d - StartDate + StartWeekday) % 7

\* lines 300-314 and 377-389: from curr back to start_date, the weekdays
\* without a file, up to the first weekday that has one
RECURSIVE scan_missing(_, _, _)
scan_missing(curr, start_date, files) ==
    IF curr < start_date THEN <<>>
    ELSE IF weekday(curr) < WorkDays
    THEN IF curr \in files THEN <<>>
         ELSE <<curr>> \o scan_missing(curr - 1, start_date, files)
    ELSE scan_missing(curr - 1, start_date, files)

crawl_frame ==
    UNCHANGED <<norm_vars, allowed_stock_codes, psf_vars, stat_vars,
                ana_vars, agg_vars, csh_vars>>

\* lines 296-318 and 373-393: the scan; with nothing missing the crawler
\* returns 0
ScanMissingDates ==
    /\ crawl_pc = "scan"
    /\ LET missing == scan_missing(today, StartDate, save_dir[crawl_stage])
       IN /\ missing_dates' = missing
          /\ crawl_pc' = IF missing = <<>> THEN "returned" ELSE "download"
    /\ download_idx' = 0
    /\ success_count' = 0
    /\ UNCHANGED <<crawl_stage, today, save_dir>>
    /\ crawl_frame

\* lines 325-337 and 402-411: one pass of the download loop, the file is
\* written
DownloadSucceeds ==
    /\ crawl_pc = "download"
    /\ download_idx < Len(missing_dates)
    /\ save_dir' =
           [save_dir EXCEPT ![crawl_stage] =
               @ \cup {missing_dates[download_idx + 1]}]
    /\ success_count' = success_count + 1
    /\ download_idx' = download_idx + 1
    /\ UNCHANGED <<crawl_pc, crawl_stage, today, missing_dates>>
    /\ crawl_frame

\* lines 338-339 and 412-413: one pass of the download loop, nothing is
\* written
DownloadFails ==
    /\ crawl_pc = "download"
    /\ download_idx < Len(missing_dates)
    /\ download_idx' = download_idx + 1
    /\ UNCHANGED <<crawl_pc, crawl_stage, today, save_dir, missing_dates,
                   success_count>>
    /\ crawl_frame

\* lines 343 and 417
ReturnSuccessCount ==
    /\ crawl_pc = "download"
    /\ download_idx = Len(missing_dates)
    /\ crawl_pc' = "returned"
    /\ UNCHANGED <<crawl_stage, today, save_dir, missing_dates,
                   download_idx, success_count>>
    /\ crawl_frame

\* lines 783-784: the institutional crawler follows the daily one
CrawlInstitutional ==
    /\ crawl_pc = "returned"
    /\ crawl_stage = "daily"
    /\ crawl_stage' = "institutional"
    /\ crawl_pc' = "scan"
    /\ UNCHANGED <<today, save_dir, missing_dates, download_idx,
                   success_count>>
    /\ crawl_frame

(***************************************************************************)
(* SpecCrawl: runs of run_step1_crawler over the folders they leave, from  *)
(* empty folders on day 1; the next run takes place on the same day or on  *)
(* the next one, up to day CrawlDays.  The workflow is started again and   *)
(* again and a started run goes on to its end, so a step that can be taken *)
(* is taken at some time; no download is bound to succeed.                 *)
(***************************************************************************)
CrawlDays == 6

\* the next run of run_step1_crawler, end_date = datetime.now()
RunCrawlerAgain ==
    /\ crawl_pc = "returned"
    /\ crawl_stage = "institutional"
    /\ today' \in {today, Min(today + 1, CrawlDays)}
    /\ crawl_stage' = "daily"
    /\ crawl_pc' = "scan"
    /\ UNCHANGED <<save_dir, missing_dates, download_idx, success_count>>
    /\ crawl_frame

InitCrawl ==
    /\ crawl_pc = "scan"
    /\ crawl_stage = "daily"
    /\ today = StartDate
    /\ save_dir = [f \in Crawlers |-> {}]
    /\ missing_dates = <<>>
    /\ download_idx = 0
    /\ success_count = 0
    /\ allowed_stock_codes = NoneList
    /\ IdlePsf
    /\ IdleStat
    /\ IdleAna
    /\ IdleAgg
    /\ IdleCsh
    /\ IdleNorm

NextCrawl ==
    \/ ScanMissingDates
    \/ DownloadSucceeds
    \/ DownloadFails
    \/ ReturnSuccessCount
    \/ CrawlInstitutional
    \/ RunCrawlerAgain

SpecCrawl == InitCrawl /\ [][NextCrawl]_vars /\ WF_vars(NextCrawl)

\* a weekday of [start_date, end_date] has no file in the crawler's folder
MissingWeekday(f, d) ==
    /\ crawl_pc # "idle"
    /\ StartDate <= d
    /\ d <= today
    /\ weekday(d) < WorkDays
    /\ d \notin save_dir[f]

\* the crawler is about to download the date
Attempting(f, d) ==
    /\ crawl_pc = "download"
    /\ crawl_stage = f
    /\ download_idx < Len(missing_dates)
    /\ missing_dates[download_idx + 1] = d

\* C30: over any sequence of crawl runs in which downloads may fail, a
\* weekday of [start_date, end_date] that has no file is attempted again
\* by the later runs until its file exists; it is never left for ever
\* without an attempt because a later date has a file.
C30_MissingWeekdayRetried ==
    \A f \in Crawlers :
        \A d \in StartDate..CrawlDays :
            [](MissingWeekday(f, d)
                   => <>(Attempting(f, d) \/ (crawl_pc # "idle"
                                              /\ d \in save_dir[f])))

====
